---- MODULE Spec2Model ----
(***************************************************************************)
(* SOF host-side IPC channel (sound/soc/sof/ipc.c).                        *)
(*                                                                         *)
(* Several threads call sof_ipc_tx_message, sof_ipc_tx_message_no_pm and   *)
(* sof_ipc_set_get_large_ctrl_data concurrently; the DSP answers through   *)
(* snd_sof_ipc_reply; snd_sof_ipc_free disables the channel.               *)
(***************************************************************************)
EXTENDS Integers, Sequences, FiniteSets, TLC

(* ---------------------------- bounds ----------------------------------- *)
\* longest widget, route, DAI and control lists of a topology
MaxWidgets == 3
MaxRoutes == 3
MaxDais == 3
MaxKcontrols == 2
\* number of threads calling into the channel
NumCallers == 2
\* largest message the mailbox takes (scaled down)
SOF_IPC_MSG_MAX_SIZE == 3
\* largest control size handed to the chunker
MaxCtrlBytes == 3
\* replies to timed-out commands the DSP may still owe
MaxStale == 1

(* --------------------------- error codes ------------------------------- *)
ENOMEM == -12
ENODEV == -19
EINVAL == -22
ENOBUFS == -105
ETIMEDOUT == -110

Callers == 1..NumCallers

\* status words the DSP puts into a reply
StatusVals == {-5, 0, 1}
\* results of snd_sof_dsp_send_msg
SendRets == {-16, 0}
\* results of snd_sof_dsp_set_power_state
PmRets == {-16, -5, 0}
\* values an uninitialised int may hold
GarbageVals == {-1, 0}
\* a message and a reply of the largest size
FullSize == <<SOF_IPC_MSG_MAX_SIZE, SOF_IPC_MSG_MAX_SIZE>>
\* (msg_bytes, reply_bytes) pairs callers pass to the plain send
SizePairs == { <<1, 0>>,
               FullSize,
               <<SOF_IPC_MSG_MAX_SIZE + 1, 1>>,
               <<1, SOF_IPC_MSG_MAX_SIZE + 1>> }
\* header sizes of a control message; always smaller than a full message
HdrVals == 1..(SOF_IPC_MSG_MAX_SIZE - 1)

\* (major << 24) | (minor << 12) | patch
SOF_ABI_VER(major, minor, patch) == major * 16777216 + minor * 4096 + patch

AbiVals == { SOF_ABI_VER(3, 2, 0), SOF_ABI_VER(3, 3, 0), SOF_ABI_VER(3, 4, 0) }

\* rounding down instead of up
DIV_ROUND_DOWN(n, d) == n \div d

min(a, b) == IF a < b THEN a ELSE b

DIV_ROUND_UP(n, d) == (n + d - 1) \div d

\* a copy that ignores where in the source and destination it should start
memcpy_from_start(dest, doff, src, soff, n) ==
    [ j \in 1..Len(dest) |-> IF j <= n THEN src[j] ELSE dest[j] ]

\* memcpy(dest + doff, src + soff, n)
memcpy(dest, doff, src, soff, n) ==
    [ j \in 1..Len(dest) |->
        IF doff < j /\ j <= doff + n THEN src[soff + j - doff] ELSE dest[j] ]

\* n zero bytes
Zeros(n) == [ j \in 1..n |-> 0 ]

\* the S bytes of a control value held by the caller
CtrlBytes(S) == [ j \in 1..S |-> j ]

\* the payload bytes of the reply whose content is named v
ReplyBytes(v) == [ j \in 1..SOF_IPC_MSG_MAX_SIZE |-> 10 * v + j ]

\* contents the DSP puts into a reply
FillVals == {7, 8}

VARIABLES
    tx_mutex,        \* ipc->tx_mutex: 0 when free, else the holder
    disable_ipc_tx,  \* ipc->disable_ipc_tx
    msg,             \* ipc->msg
    cs,              \* per caller: the call in progress and its locals
    dsp,             \* the replies the DSP still owes
    abi_version,     \* sdev->fw_ready.version.abi_version
    widget_list,     \* sof_audio->widget_list, in creation order
    route_list,      \* sof_audio->route_list, in creation order
    dai_list,        \* sof_audio->dai_list, in creation order
    kcontrol_list,   \* sof_audio->kcontrol_list, in creation order
    pass,            \* the destroy or restore pass in progress
    ipc_lock,        \* sdev->ipc_lock: 0 when free, else the holder
    fw_state,        \* sdev->fw_state
    pcm_list,        \* sof_audio->pcm_list
    rx,              \* what the last reply or notification brought about
    fw_version       \* sdev->fw_version

\* the audio client's state
audio == <<widget_list, route_list, dai_list, kcontrol_list, pass>>

\* the receive side of the core device
core == <<ipc_lock, fw_state, pcm_list, rx, fw_version>>

vars == <<tx_mutex, disable_ipc_tx, msg, cs, dsp, abi_version, audio, core>>

\* a caller that is not inside any call
IdleCs == [ pc |-> "idle", fn |-> "none",
            msg_bytes |-> 0, reply_bytes |-> 0,
            hdr_bytes |-> 0, pl_size |-> 0, num_msg |-> 0,
            i |-> 0, rem |-> 0, offset |-> 0, send |-> FALSE,
            send_bytes |-> 0, ret |-> 0,
            \* the caller's source and destination bytes and the payload
            \* region of the kzalloc'ed partdata
            src |-> <<>>, dst |-> <<>>, partdata |-> <<>>,
            \* bookkeeping about the call, not program state
            sent |-> <<>>, txcalls |-> 0, locks |-> 0, fwexc |-> 0,
            pmreq |-> 0, pm_ret |-> 0, how |-> "none", by |-> "none",
            copied |-> FALSE,
            \* what each call of the send primitive returned, the payloads
            \* handed to the transport, the payloads of the replies, and the
            \* allocation and control type the call was given
            rets |-> <<>>, out_data |-> <<>>, in_data |-> <<>>,
            alloc_ok |-> TRUE, type_ok |-> TRUE ]

\* snd_sof_ipc_init: no message is being sent
InitMsg == [ header |-> 0, msg_size |-> 0, reply_size |-> 0,
             reply_error |-> 0, ipc_complete |-> TRUE, reply_data |-> 0,
             \* bookkeeping: whose reply completed the message
             by |-> "none" ]

\* the DSP: whether it still owes the reply to the command it was last
\* given, the status it reported for that command (if it has), and how many
\* replies to abandoned commands it still owes
NoReplyOwed == [ owes |-> FALSE, said |-> <<>>, stale |-> 0 ]

\* a firmware version as sof_ipc_fw_version carries it
Version(major, minor, abi) == [ major |-> major, minor |-> minor, abi_version |-> abi ]

\* sdev->fw_version before any firmware was checked
NoVersion == Version(0, 0, 0)

\* nothing has been received yet
NoRx == [ tick |-> 0, kind |-> "none", whose |-> "none", status |-> 0,
          ret |-> 0, woke |-> FALSE,
          cmd |-> [ glb |-> "none", type |-> "none", id |-> 0 ],
          validated |-> FALSE,
          boot_woken |-> FALSE, elapsed |-> <<>>, stopped |-> <<>>,
          trace |-> 0, calls |-> 0, locks |-> {}, busy |-> FALSE,
          told |-> {}, host |-> 0, strict |-> FALSE, version |-> NoVersion ]

\* a booted device with the given streams and nothing received
CoreInit(state, pcms) ==
    /\ ipc_lock = 0
    /\ fw_state = state
    /\ pcm_list = pcms
    /\ rx = NoRx
    /\ fw_version = NoVersion

\* no pass is running
IdlePass == [ pc |-> "idle", fn |-> "none", idx |-> 0, ret |-> 0, log |-> <<>> ]

\* an audio client whose topology holds the given lists
AudioInit(widgets, routes, dais, kcontrols) ==
    /\ widget_list = widgets
    /\ route_list = routes
    /\ dai_list = dais
    /\ kcontrol_list = kcontrols
    /\ pass = IdlePass

InitWith(abis) ==
    /\ tx_mutex = 0
    /\ disable_ipc_tx = FALSE
    /\ msg = InitMsg
    /\ cs = [c \in Callers |-> IdleCs]
    /\ dsp = NoReplyOwed
    /\ abi_version \in abis
    /\ AudioInit(<<>>, <<>>, <<>>, <<>>)
    /\ CoreInit("BOOT_COMPLETE", <<>>)

\* firmware that supports large control transfers
Init == InitWith({ SOF_ABI_VER(3, 3, 0) })

\* firmware of any ABI version
InitAnyAbi == InitWith(AbiVals)

(* ------------------------- the send primitive -------------------------- *)

\* the frame handed to snd_sof_dsp_send_msg
Frame(size, num_elems, msg_index, elems_remaining, ok) ==
    [ size |-> size, num_elems |-> num_elems, msg_index |-> msg_index,
      elems_remaining |-> elems_remaining, ok |-> ok ]

\* sof_ipc_tx_message_unlocked without the disabled check
tx_unlocked_ignores_disable(m, disabled, header, msg_bytes, reply_bytes, sr) ==
    [ msg |-> [ m EXCEPT !.header = header,
                         !.msg_size = msg_bytes,
                         !.reply_size = reply_bytes,
                         !.reply_error = 0,
                         !.ipc_complete = IF sr = 0 THEN FALSE ELSE @,
                         !.by = IF sr = 0 THEN "none" ELSE @ ],
      wrote |-> TRUE, wait |-> (sr = 0), ret |-> sr ]

\* sof_ipc_tx_message_unlocked up to the wait: the disabled check and the
\* section under sdev->ipc_lock.  sr is what snd_sof_dsp_send_msg returns.
\* Gives the message slot, whether the transport was written, whether
\* tx_wait_done comes next, and the result if it does not.
sof_ipc_tx_message_unlocked(m, disabled, header, msg_bytes, reply_bytes, sr) ==
    IF disabled
    THEN [ msg |-> m, wrote |-> FALSE, wait |-> FALSE, ret |-> ENODEV ]
    ELSE [ msg |-> [ m EXCEPT !.header = header,
                              !.msg_size = msg_bytes,
                              !.reply_size = reply_bytes,
                              !.reply_error = 0,
                              !.ipc_complete = IF sr = 0 THEN FALSE ELSE @,
                              !.by = IF sr = 0 THEN "none" ELSE @ ],
           wrote |-> TRUE, wait |-> (sr = 0), ret |-> sr ]

\* a wait without a timeout: it returns only once the condition holds
wait_event_forever(cond) == IF cond THEN {1} ELSE {}

\* wait_event_timeout(msg->waitq, msg->ipc_complete, timeout): the values it
\* can return; 0 says the timeout elapsed with the condition still false
wait_event_timeout(cond) == IF cond THEN {1} ELSE {0}

\* tx_wait_done treating a timeout as success, without the exception handler
tx_wait_done_quiet(m, w) ==
    IF w = 0
    THEN [ ret |-> 0, fwexc |-> 0, copied |-> FALSE, how |-> "timeout" ]
    ELSE [ ret |-> m.reply_error, fwexc |-> 0,
           copied |-> (m.reply_error >= 0 /\ m.reply_size > 0),
           how |-> "reply" ]

\* tx_wait_done, given what wait_event_timeout returned
tx_wait_done(m, w) ==
    IF w = 0
    THEN [ ret |-> ETIMEDOUT, fwexc |-> 1, copied |-> FALSE, how |-> "timeout" ]
    ELSE [ ret |-> m.reply_error, fwexc |-> 0,
           copied |-> (m.reply_error >= 0 /\ m.reply_size > 0),
           how |-> "reply" ]

\* the size check with >= in place of >
no_pm_too_big_off_by_one(msg_bytes, reply_bytes) ==
    msg_bytes >= SOF_IPC_MSG_MAX_SIZE \/ reply_bytes >= SOF_IPC_MSG_MAX_SIZE

\* the size check of sof_ipc_tx_message_no_pm
no_pm_too_big(msg_bytes, reply_bytes) ==
    msg_bytes > SOF_IPC_MSG_MAX_SIZE \/ reply_bytes > SOF_IPC_MSG_MAX_SIZE

\* sof_ipc_tx_message_no_pm up to mutex_lock
sof_ipc_tx_message_no_pm(r) ==
    IF no_pm_too_big(r.msg_bytes, r.reply_bytes)
    THEN [ r EXCEPT !.pc = "done", !.ret = ENOBUFS ]
    ELSE [ r EXCEPT !.pc = "lock" ]

\* sof_ipc_tx_message going on although the D0 request failed
sof_ipc_tx_message_ignores_pm(r, pm) ==
    sof_ipc_tx_message_no_pm([ r EXCEPT !.pmreq = @ + 1, !.pm_ret = pm ])

\* sof_ipc_tx_message: D0 is requested first; pm is the request's result
sof_ipc_tx_message(r, pm) ==
    LET q == [ r EXCEPT !.pmreq = @ + 1, !.pm_ret = pm ]
    IN  IF pm < 0
        THEN [ q EXCEPT !.pc = "done", !.ret = pm ]
        ELSE sof_ipc_tx_message_no_pm(q)

\* what the DSP owes once the sender has stopped waiting: the reply to the
\* command just abandoned or completed by another reply may still come
DspAfterWait(d) ==
    [ owes |-> FALSE, said |-> <<>>,
      stale |-> IF d.owes THEN min(d.stale + 1, MaxStale) ELSE d.stale ]

(* ------------------------------ actions -------------------------------- *)

\* a thread enters sof_ipc_tx_message
CallTx(c, sizes, pms) ==
    /\ cs[c].pc = "idle"
    /\ \E sz \in sizes, pm \in pms :
         cs' = [cs EXCEPT ![c] =
                  sof_ipc_tx_message(
                      [ IdleCs EXCEPT !.fn = "tx", !.msg_bytes = sz[1],
                                      !.reply_bytes = sz[2] ], pm)]
    /\ UNCHANGED <<tx_mutex, disable_ipc_tx, msg, dsp, abi_version, audio, core>>

\* a thread enters sof_ipc_tx_message_no_pm
CallNoPm(c, sizes) ==
    /\ cs[c].pc = "idle"
    /\ \E sz \in sizes :
         cs' = [cs EXCEPT ![c] =
                  sof_ipc_tx_message_no_pm(
                      [ IdleCs EXCEPT !.fn = "no_pm", !.msg_bytes = sz[1],
                                      !.reply_bytes = sz[2] ])]
    /\ UNCHANGED <<tx_mutex, disable_ipc_tx, msg, dsp, abi_version, audio, core>>

\* sof_get_ctrl_copy_params: payload size and number of messages
sof_get_ctrl_copy_params(r, type_ok) ==
    IF ~type_ok
    THEN [ r EXCEPT !.pc = "done", !.ret = EINVAL ]
    ELSE LET pl == SOF_IPC_MSG_MAX_SIZE - r.hdr_bytes
         IN  [ r EXCEPT !.pl_size = pl,
                        !.num_msg = DIV_ROUND_UP(r.msg_bytes, pl),
                        !.rem = r.msg_bytes,
                        !.pc = "lock" ]

\* a version check that also turns away 3.3.0 itself
abi_too_old_inclusive(abi) == abi <= SOF_ABI_VER(3, 3, 0)

\* large messages are only supported from ABI 3.3.0 onwards
abi_too_old(abi) == abi < SOF_ABI_VER(3, 3, 0)

\* sof_ipc_set_get_large_ctrl_data up to mutex_lock.  err is not
\* initialised: g is the value it happens to hold.
sof_ipc_set_get_large_ctrl_data(r, abi, alloc_ok, type_ok, g) ==
    IF abi_too_old(abi)
    THEN [ r EXCEPT !.pc = "done", !.ret = EINVAL ]
    ELSE IF ~alloc_ok
    THEN [ r EXCEPT !.pc = "done", !.ret = ENOMEM ]
    ELSE sof_get_ctrl_copy_params(
             [ r EXCEPT !.ret = g,
                        !.partdata = Zeros(SOF_IPC_MSG_MAX_SIZE - r.hdr_bytes) ],
             type_ok)

\* a thread enters sof_ipc_set_get_large_ctrl_data
CallLarge(c, Ss, Hs, oks, gs) ==
    /\ cs[c].pc = "idle"
    /\ \E S \in Ss, H \in Hs, snd \in BOOLEAN,
          alloc_ok \in oks, type_ok \in oks, g \in gs :
         cs' = [cs EXCEPT ![c] =
                  sof_ipc_set_get_large_ctrl_data(
                      [ IdleCs EXCEPT !.fn = "large", !.msg_bytes = S,
                                      !.hdr_bytes = H, !.send = snd,
                                      !.src = IF snd THEN CtrlBytes(S) ELSE <<>>,
                                      !.dst = IF snd THEN <<>>
                                              ELSE Zeros(S + SOF_IPC_MSG_MAX_SIZE),
                                      !.alloc_ok = alloc_ok,
                                      !.type_ok = type_ok ],
                      abi_version, alloc_ok, type_ok, g)]
    /\ UNCHANGED <<tx_mutex, disable_ipc_tx, msg, dsp, abi_version, audio, core>>

\* a lock that lets a second sender in
mutex_lock_broken(c) ==
    /\ cs[c].pc = "lock"
    /\ tx_mutex' = c
    /\ cs' = [cs EXCEPT ![c].pc = IF cs[c].fn = "large" THEN "loop" ELSE "unlocked",
                        ![c].locks = @ + 1]
    /\ UNCHANGED <<disable_ipc_tx, msg, dsp, abi_version, audio, core>>

\* mutex_lock(&ipc->tx_mutex) by a sender
mutex_lock(c) ==
    /\ cs[c].pc = "lock"
    /\ tx_mutex = 0
    /\ tx_mutex' = c
    /\ cs' = [cs EXCEPT ![c].pc = IF cs[c].fn = "large" THEN "loop" ELSE "unlocked",
                        ![c].locks = @ + 1]
    /\ UNCHANGED <<disable_ipc_tx, msg, dsp, abi_version, audio, core>>

\* an error path that returns without mutex_unlock
mutex_unlock_skipped_on_error(c, ret) == IF ret < 0 THEN c ELSE 0

\* mutex_unlock(&ipc->tx_mutex) when a send returns ret
mutex_unlock(c, ret) == 0

\* the caller's record after one call of sof_ipc_tx_message_unlocked that
\* did not go on to wait
AfterTx(r, out, frame) ==
    [ r EXCEPT !.txcalls = @ + 1,
               !.sent = IF out.wrote THEN Append(@, frame) ELSE @,
               !.out_data = IF out.wrote
                            THEN Append(@, SubSeq(r.partdata, 1, frame.num_elems))
                            ELSE @,
               !.rets = IF out.wait THEN @ ELSE Append(@, out.ret) ]

\* sof_ipc_tx_message_no_pm after mutex_lock: the send itself
TxSend(c, srs) ==
    /\ cs[c].pc = "unlocked"
    /\ tx_mutex = c
    /\ \E sr \in srs :
         LET r == cs[c]
             out == sof_ipc_tx_message_unlocked(msg, disable_ipc_tx, 0,
                                                r.msg_bytes, r.reply_bytes, sr)
             q == AfterTx(r, out, Frame(r.msg_bytes, 0, 0, 0, sr = 0))
         IN  /\ msg' = out.msg
             /\ IF out.wait
                THEN /\ cs' = [cs EXCEPT ![c] = [ q EXCEPT !.pc = "wait" ]]
                     /\ tx_mutex' = tx_mutex
                     /\ dsp' = [ dsp EXCEPT !.owes = TRUE, !.said = <<>> ]
                ELSE /\ cs' = [cs EXCEPT ![c] =
                                 [ q EXCEPT !.pc = "done", !.ret = out.ret ]]
                     /\ tx_mutex' = mutex_unlock(c, out.ret)
                     /\ dsp' = dsp
    /\ UNCHANGED <<disable_ipc_tx, abi_version, audio, core>>

\* the caller's record after tx_wait_done
AfterWait(r, res) ==
    [ r EXCEPT !.ret = res.ret, !.fwexc = @ + res.fwexc,
               !.copied = res.copied, !.how = res.how, !.by = msg.by,
               !.rets = Append(@, res.ret),
               !.partdata = IF res.copied
                            THEN memcpy(@, 0, ReplyBytes(msg.reply_data), 0,
                                        r.send_bytes)
                            ELSE @ ]

\* sof_ipc_tx_message_no_pm: tx_wait_done returns, the lock is dropped
TxWait(c) ==
    /\ cs[c].pc = "wait"
    /\ cs[c].fn \in {"tx", "no_pm"}
    /\ \E w \in wait_event_timeout(msg.ipc_complete) :
         LET res == tx_wait_done(msg, w)
         IN  /\ cs' = [cs EXCEPT ![c] =
                         [ AfterWait(cs[c], res) EXCEPT !.pc = "done" ]]
             /\ tx_mutex' = mutex_unlock(c, res.ret)
    /\ dsp' = DspAfterWait(dsp)
    /\ UNCHANGED <<disable_ipc_tx, msg, abi_version, audio, core>>

\* a loop that goes on after a failed message
loop_never_breaks(err) == FALSE

\* if (err < 0) break;
loop_breaks(err) == err < 0

\* the rest of the loop body once sof_ipc_tx_message_unlocked has returned
\* r.ret: leave the loop, or take the reply's slice and step to the next
\* message
LargeAfterMsg(r) ==
    IF loop_breaks(r.ret)
    THEN [ r EXCEPT !.pc = "done" ]
    ELSE [ r EXCEPT !.pc = "loop",
                    !.dst = IF r.send THEN @
                            ELSE memcpy(@, r.offset, r.partdata, 0, r.send_bytes),
                    !.offset = @ + r.pl_size,
                    !.i = @ + 1 ]

\* one pass through the loop head of sof_ipc_set_get_large_ctrl_data: either
\* the loop is over, or the next message is built and sent
LargeLoop(c, srs) ==
    /\ cs[c].pc = "loop"
    /\ tx_mutex = c
    /\ LET r == cs[c] IN
       IF r.i >= r.num_msg
       THEN /\ cs' = [cs EXCEPT ![c].pc = "done"]
            /\ tx_mutex' = mutex_unlock(c, r.ret)
            /\ UNCHANGED <<msg, dsp>>
       ELSE \E sr \in srs :
            LET send_bytes == min(r.rem, r.pl_size)
                size == r.hdr_bytes + send_bytes
                left == r.rem - send_bytes
                pd == IF r.send
                      THEN memcpy(r.partdata, 0, r.src, r.offset, send_bytes)
                      ELSE r.partdata
                out == sof_ipc_tx_message_unlocked(msg, disable_ipc_tx, 0,
                                                   size, size, sr)
                q == AfterTx([ r EXCEPT !.rem = left, !.send_bytes = send_bytes,
                                        !.partdata = pd ], out,
                             Frame(size, send_bytes, r.i, left, sr = 0))
            IN  /\ msg' = out.msg
                /\ IF out.wait
                   THEN /\ cs' = [cs EXCEPT ![c] = [ q EXCEPT !.pc = "wait" ]]
                        /\ tx_mutex' = tx_mutex
                        /\ dsp' = [ dsp EXCEPT !.owes = TRUE, !.said = <<>> ]
                   ELSE /\ cs' = [cs EXCEPT ![c] =
                                    LargeAfterMsg([ q EXCEPT !.ret = out.ret ])]
                        /\ tx_mutex' = IF loop_breaks(out.ret)
                                       THEN mutex_unlock(c, out.ret)
                                       ELSE tx_mutex
                        /\ dsp' = dsp
    /\ UNCHANGED <<disable_ipc_tx, abi_version, audio, core>>

\* sof_ipc_set_get_large_ctrl_data: tx_wait_done returns for one message
LargeWait(c) ==
    /\ cs[c].pc = "wait"
    /\ cs[c].fn = "large"
    /\ \E w \in wait_event_timeout(msg.ipc_complete) :
         LET res == tx_wait_done(msg, w)
             q == AfterWait(cs[c], res)
         IN  /\ cs' = [cs EXCEPT ![c] =
                         LargeAfterMsg(
                             [ q EXCEPT !.in_data =
                                 IF res.how = "reply"
                                 THEN Append(@, SubSeq(ReplyBytes(msg.reply_data),
                                                       1, q.send_bytes))
                                 ELSE @ ])]
             /\ tx_mutex' = IF loop_breaks(res.ret)
                            THEN mutex_unlock(c, res.ret)
                            ELSE tx_mutex
    /\ dsp' = DspAfterWait(dsp)
    /\ UNCHANGED <<disable_ipc_tx, msg, abi_version, audio, core>>

\* the call has returned to its caller
Return(c) ==
    /\ cs[c].pc = "done"
    /\ cs' = [cs EXCEPT ![c] = IdleCs]
    /\ UNCHANGED <<tx_mutex, disable_ipc_tx, msg, dsp, abi_version, audio, core>>

\* a reply handler that completes whatever it is given
snd_sof_ipc_reply_unchecked(m) ==
    [ ret |-> 0, msg |-> [ m EXCEPT !.ipc_complete = TRUE ], woke |-> TRUE ]

\* snd_sof_ipc_reply: what it returns, the message slot it leaves and
\* whether it called wake_up(&msg->waitq)
snd_sof_ipc_reply(m) ==
    IF m.ipc_complete
    THEN [ ret |-> EINVAL, msg |-> m, woke |-> FALSE ]
    ELSE [ ret |-> 0, msg |-> [ m EXCEPT !.ipc_complete = TRUE ],
           woke |-> TRUE ]

\* the platform's reply handler: the status word of the reply is stored in
\* the pending message, then snd_sof_ipc_reply is called
ReplyReceived(m, status, whose, data) ==
    LET out == snd_sof_ipc_reply(m)
    IN  IF out.ret = 0
        THEN [ out.msg EXCEPT !.reply_error = status, !.by = whose,
                              !.reply_data = data ]
        ELSE out.msg

\* the caller waiting for a reply, if any
Waiting == { c \in Callers : cs[c].pc = "wait" }

\* the DSP answers the command it was last given
DspReply(statuses, fills) ==
    /\ dsp.owes
    /\ \E status \in statuses, data \in fills :
         /\ msg' = ReplyReceived(msg, status, "own", data)
         /\ dsp' = [ dsp EXCEPT !.owes = FALSE, !.said = <<status>> ]
    /\ UNCHANGED <<tx_mutex, disable_ipc_tx, cs, abi_version, audio, core>>

\* the DSP answers a command whose sender has already given up
DspLateReply(statuses, fills) ==
    /\ dsp.stale > 0
    /\ \E status \in statuses, data \in fills :
         msg' = ReplyReceived(msg, status, "stale", data)
    /\ dsp' = [ dsp EXCEPT !.stale = @ - 1 ]
    /\ UNCHANGED <<tx_mutex, disable_ipc_tx, cs, abi_version, audio, core>>

\* a shutdown that sets the flag without taking the send lock
snd_sof_ipc_free_unlocked ==
    /\ disable_ipc_tx' = TRUE
    /\ UNCHANGED <<tx_mutex, msg, cs, dsp, abi_version, audio, core>>

\* snd_sof_ipc_free: the flag is set between mutex_lock and mutex_unlock of
\* tx_mutex, so the call goes through only once no sender holds the lock
snd_sof_ipc_free ==
    /\ tx_mutex = 0
    /\ disable_ipc_tx' = TRUE
    /\ UNCHANGED <<tx_mutex, msg, cs, dsp, abi_version, audio, core>>

(* --------------------------- specifications ---------------------------- *)

\* Concurrent senders through all three entry points, with arguments every
\* check accepts, against a DSP that may answer, answer late or never answer.
Next ==
    \/ \E c \in Callers : CallTx(c, {FullSize}, {0})
    \/ \E c \in Callers : CallNoPm(c, {FullSize})
    \/ \E c \in Callers : CallLarge(c, {2}, {SOF_IPC_MSG_MAX_SIZE - 1}, {TRUE}, {0})
    \/ \E c \in Callers : mutex_lock(c)
    \/ \E c \in Callers : TxSend(c, {0})
    \/ \E c \in Callers : TxWait(c)
    \/ \E c \in Callers : LargeLoop(c, {0})
    \/ \E c \in Callers : LargeWait(c)
    \/ \E c \in Callers : Return(c)
    \/ DspReply({-5, 0}, {0})
    \/ DspLateReply({-5, 0}, {0})
    \/ snd_sof_ipc_free

Spec == Init /\ [][Next]_vars

\* One thread trying every argument of the plain sends, before and after
\* snd_sof_ipc_free.
ArgsNext ==
    \/ CallTx(1, SizePairs, PmRets)
    \/ CallNoPm(1, SizePairs)
    \/ CallLarge(1, 0..1, {SOF_IPC_MSG_MAX_SIZE - 1}, BOOLEAN, GarbageVals)
    \/ mutex_lock(1)
    \/ TxSend(1, SendRets)
    \/ TxWait(1)
    \/ LargeLoop(1, SendRets)
    \/ LargeWait(1)
    \/ Return(1)
    \/ DspReply(StatusVals, {0})
    \/ DspLateReply({0}, {0})
    \/ snd_sof_ipc_free

SpecArgs == InitAnyAbi /\ [][ArgsNext]_vars

\* One thread transferring controls of every size with every header size.
ChunkNext ==
    \/ CallLarge(1, 0..MaxCtrlBytes, HdrVals, BOOLEAN, GarbageVals)
    \/ mutex_lock(1)
    \/ LargeLoop(1, SendRets)
    \/ LargeWait(1)
    \/ Return(1)
    \/ DspReply(StatusVals, FillVals)
    \/ DspLateReply({0}, FillVals)
    \/ snd_sof_ipc_free

SpecChunk == InitAnyAbi /\ [][ChunkNext]_vars

\* The senders under the scheduling the kernel gives them: a thread that can
\* run does run, a mutex that keeps becoming free is eventually handed to
\* each waiter, and wait_event_timeout returns when its timeout elapses.
Fairness ==
    \A c \in Callers :
        /\ SF_vars(mutex_lock(c))
        /\ WF_vars(TxSend(c, {0}))
        /\ WF_vars(TxWait(c))
        /\ WF_vars(LargeLoop(c, {0}))
        /\ WF_vars(LargeWait(c))

SpecFair == Init /\ [][Next]_vars /\ Fairness

(* ------------------------ pipeline lifecycle --------------------------- *)

\* the link DMA channel value that names no channel
DMA_CHAN_INVALID == -1

\* results of sof_client_tx_message and of the helpers built on it
TxRets == {-5, 0}

WidgetKinds == {"scheduler", "buffer", "dai_in", "dai_out", "pga"}
DaiTypes == {"none", "hda", "ssp"}
CtrlCmds == {"volume", "enum", "switch", "binary", "other"}

\* widget k of a topology; private is 0 when nothing was built for it
Widget(k, id, built) ==
    [ comp_id |-> k, id |-> id, private |-> IF built THEN 10 + k ELSE 0,
      complete |-> 0 ]

\* route k of a topology
Route(k, built) == [ id |-> k, private |-> IF built THEN 20 + k ELSE 0 ]

\* DAI link k; dai_config "none" is a NULL configuration
Dai(k, type) == [ name |-> k, dai_config |-> type, link_dma_ch |-> k ]

\* control k with its readback cursor
Kcontrol(k, cmd, off) == [ comp_id |-> k, cmd |-> cmd, readback_offset |-> off ]

WidgetLists ==
    UNION { { [ k \in 1..n |-> Widget(k, f[k][1], f[k][2]) ] :
                f \in [1..n -> WidgetKinds \X BOOLEAN] } : n \in 0..MaxWidgets }

RouteLists ==
    UNION { { [ k \in 1..n |-> Route(k, f[k]) ] : f \in [1..n -> BOOLEAN] } :
            n \in 0..MaxRoutes }

DaiLists ==
    UNION { { [ k \in 1..n |-> Dai(k, f[k]) ] : f \in [1..n -> DaiTypes] } :
            n \in 0..MaxDais }

KcontrolLists ==
    UNION { { [ k \in 1..n |-> Kcontrol(k, f[k][1], f[k][2]) ] :
                f \in [1..n -> CtrlCmds \X {0, 4}] } : n \in 0..MaxKcontrols }

\* one topology with something of every kind in it
SomeWidgets == << Widget(1, "scheduler", TRUE), Widget(2, "dai_in", TRUE) >>
SomeRoutes == << Route(1, TRUE), Route(2, TRUE) >>
SomeDais == << Dai(1, "hda"), Dai(2, "ssp") >>
SomeKcontrols == << Kcontrol(1, "volume", 4) >>

\* the topologies looked at: each list in turn takes every shape while the
\* other three are the ones above
Topologies ==
    (WidgetLists \X {SomeRoutes} \X {SomeDais} \X {SomeKcontrols})
    \cup ({SomeWidgets} \X RouteLists \X {SomeDais} \X {SomeKcontrols})
    \cup ({SomeWidgets} \X {SomeRoutes} \X DaiLists \X {SomeKcontrols})
    \cup ({SomeWidgets} \X {SomeRoutes} \X {SomeDais} \X KcontrolLists)

\* a forward walk that goes backwards
list_for_each_entry_backward(list) == [ k \in 1..Len(list) |-> Len(list) + 1 - k ]

\* the order in which list_for_each_entry visits a list
list_for_each_entry(list) == [ k \in 1..Len(list) |-> k ]

\* a reverse walk that goes forward
list_for_each_entry_forward(list) == [ k \in 1..Len(list) |-> k ]

\* the order in which list_for_each_entry_reverse visits a list
list_for_each_entry_reverse(list) == [ k \in 1..Len(list) |-> Len(list) + 1 - k ]

\* a walk that skips nothing
private_not_checked(x) == TRUE

\* if (!swidget->private) continue; if (!sroute->private) continue;
has_private(x) == x.private # 0

\* every widget freed as a plain component
free_cmd_always_comp(id) == "COMP_FREE"

\* the free opcode for a widget kind
free_cmd(id) ==
    CASE id = "scheduler" -> "PIPE_FREE"
      [] id = "buffer" -> "BUFFER_FREE"
      [] OTHER -> "COMP_FREE"

\* every widget replayed as an opaque payload
widget_path_generic(id) == "generic"

\* switch (swidget->id) in the component loop of sof_restore_pipelines: the
\* way a widget kind is created again. "dai_comp" sends the stored
\* sof_ipc_comp_dai with its own opcode and sizeof(*comp_dai), "pipe_new"
\* calls sof_load_pipeline_ipc on the stored sof_ipc_pipe_new, and "generic"
\* sends the stored payload with hdr->cmd and hdr->size of its own header
widget_path(id) ==
    CASE id \in {"dai_in", "dai_out"} -> "dai_comp"
      [] id = "scheduler" -> "pipe_new"
      [] OTHER -> "generic"

\* a destroy pass that carries on after a failed free
free_never_failed(ret) == FALSE

\* if (ret < 0) return ret; in sof_destroy_pipelines
free_failed(ret) == ret < 0

\* a restore pass that carries on after a failed command
restore_never_failed(ret) == FALSE

\* if (ret < 0) return ret; in the loops of sof_restore_pipelines
restore_failed(ret) == ret < 0

\* DAI links configured before the routes are connected
next_phase_dais_first(pc) ==
    CASE pc = "widgets" -> "dais"
      [] pc = "dais" -> "routes"
      [] pc = "routes" -> "complete"
      [] pc = "complete" -> "kcontrols"
      [] OTHER -> "done"

\* a restore pass that returns after the completions
next_phase_no_kcontrols(pc) ==
    CASE pc = "widgets" -> "routes"
      [] pc = "routes" -> "dais"
      [] pc = "dais" -> "complete"
      [] OTHER -> "done"

\* the loop of sof_restore_pipelines that follows the loop pc
next_phase(pc) ==
    CASE pc = "widgets" -> "routes"
      [] pc = "routes" -> "dais"
      [] pc = "dais" -> "complete"
      [] pc = "complete" -> "kcontrols"
      [] OTHER -> "done"

\* a DAI link without a configuration is configured all the same
config_not_checked(dai) == FALSE

\* if (!config) { dev_err(...); continue; }
no_config(dai) == dai.dai_config = "none"

\* the link DMA channel goes out as it is stored
link_dma_ch_kept(dai) == dai.link_dma_ch

\* if (config->type == SOF_DAI_INTEL_HDA)
\*         config->hda.link_dma_ch = DMA_CHAN_INVALID;
\* the link DMA channel of the configuration that is then sent
hda_link_dma_ch(dai) ==
    IF dai.dai_config = "hda" THEN DMA_CHAN_INVALID ELSE dai.link_dma_ch

\* every control sent as a set of channel values
ctrl_ipc_value_only(cmd) ==
    IF cmd \in {"volume", "enum", "switch", "binary"}
    THEN << "COMP_SET_VALUE", "VALUE_CHAN_SET" >>
    ELSE << >>

\* switch (scontrol->cmd) in sof_restore_kcontrols: ipc_cmd and ctrl_type of
\* the set command for a control kind, << >> for a kind that has none
ctrl_ipc(cmd) ==
    CASE cmd \in {"volume", "enum", "switch"} ->
           << "COMP_SET_VALUE", "VALUE_CHAN_SET" >>
      [] cmd = "binary" -> << "COMP_SET_DATA", "DATA_SET" >>
      [] OTHER -> << >>

\* one command handed to the IPC channel, with what the send returned
Event(op, cmd, id, data, type, ret) ==
    [ op |-> op, cmd |-> cmd, id |-> id, data |-> data, type |-> type,
      ret |-> ret ]

\* the pass after a loop iteration that sent e: out on failure, else on to
\* the next entry
AfterSend(e, failed) ==
    IF failed
    THEN [ pass EXCEPT !.log = Append(@, e), !.ret = e.ret, !.pc = "done" ]
    ELSE [ pass EXCEPT !.log = Append(@, e), !.ret = e.ret, !.idx = @ + 1 ]

\* the pass after a loop iteration that sent nothing
Skip == [ pass EXCEPT !.idx = @ + 1 ]

\* the pass once the loop pc has visited every entry
LoopOver(pc) == [ pass EXCEPT !.pc = next_phase(pc), !.idx = 0 ]

\* sof_audio_runtime_suspend: a destroy pass starts
sof_audio_runtime_suspend ==
    /\ pass.pc = "idle"
    /\ pass' = [ IdlePass EXCEPT !.pc = "destroy", !.fn = "destroy" ]
    /\ UNCHANGED <<tx_mutex, disable_ipc_tx, msg, cs, dsp, abi_version, core,
                   widget_list, route_list, dai_list, kcontrol_list>>

\* sof_destroy_pipelines: one iteration of its loop
sof_destroy_pipelines(rets) ==
    /\ pass.pc = "destroy"
    /\ LET order == list_for_each_entry_reverse(widget_list) IN
       IF pass.idx >= Len(order)
       THEN pass' = [ pass EXCEPT !.pc = "done" ]
       ELSE LET swidget == widget_list[order[pass.idx + 1]] IN
            IF ~has_private(swidget)
            THEN pass' = Skip
            ELSE \E ret \in rets :
                   pass' = AfterSend(Event("free", free_cmd(swidget.id),
                                           swidget.comp_id, 0, "", ret),
                                     free_failed(ret))
    /\ UNCHANGED <<tx_mutex, disable_ipc_tx, msg, cs, dsp, abi_version, core,
                   widget_list, route_list, dai_list, kcontrol_list>>

\* sof_audio_resume: a restore pass starts
sof_audio_resume ==
    /\ pass.pc = "idle"
    /\ pass' = [ IdlePass EXCEPT !.pc = "widgets", !.fn = "restore" ]
    /\ UNCHANGED <<tx_mutex, disable_ipc_tx, msg, cs, dsp, abi_version, core,
                   widget_list, route_list, dai_list, kcontrol_list>>

\* sof_restore_pipelines, restore pipeline components: one iteration
RestoreWidget(rets) ==
    /\ pass.pc = "widgets"
    /\ LET order == list_for_each_entry_reverse(widget_list) IN
       IF pass.idx >= Len(order)
       THEN pass' = LoopOver("widgets")
       ELSE LET swidget == widget_list[order[pass.idx + 1]] IN
            IF ~has_private(swidget)
            THEN pass' = Skip
            ELSE \E ret \in rets :
                   pass' = AfterSend(Event("new", widget_path(swidget.id),
                                           swidget.comp_id, swidget.private,
                                           "", ret),
                                     restore_failed(ret))
    /\ UNCHANGED <<tx_mutex, disable_ipc_tx, msg, cs, dsp, abi_version, core,
                   widget_list, route_list, dai_list, kcontrol_list>>

\* sof_restore_pipelines, restore pipeline connections: one iteration
RestoreRoute(rets) ==
    /\ pass.pc = "routes"
    /\ LET order == list_for_each_entry_reverse(route_list) IN
       IF pass.idx >= Len(order)
       THEN pass' = LoopOver("routes")
       ELSE LET sroute == route_list[order[pass.idx + 1]] IN
            IF ~has_private(sroute)
            THEN pass' = Skip
            ELSE \E ret \in rets :
                   pass' = AfterSend(Event("connect", "connect", sroute.id,
                                           sroute.private, "", ret),
                                     restore_failed(ret))
    /\ UNCHANGED <<tx_mutex, disable_ipc_tx, msg, cs, dsp, abi_version, core,
                   widget_list, route_list, dai_list, kcontrol_list>>

\* sof_restore_pipelines, restore dai links: one iteration
RestoreDai(rets) ==
    /\ pass.pc = "dais"
    /\ LET order == list_for_each_entry_reverse(dai_list) IN
       IF pass.idx >= Len(order)
       THEN /\ pass' = LoopOver("dais")
            /\ dai_list' = dai_list
       ELSE LET at == order[pass.idx + 1]
                dai == dai_list[at]
                ch == hda_link_dma_ch(dai)
            IN  IF no_config(dai)
                THEN /\ pass' = Skip
                     /\ dai_list' = dai_list
                ELSE /\ dai_list' = [dai_list EXCEPT ![at].link_dma_ch = ch]
                     /\ \E ret \in rets :
                          pass' = AfterSend(Event("dai_config", dai.dai_config,
                                                  dai.name, ch, "", ret),
                                            restore_failed(ret))
    /\ UNCHANGED <<tx_mutex, disable_ipc_tx, msg, cs, dsp, abi_version, core,
                   widget_list, route_list, kcontrol_list>>

\* sof_restore_pipelines, complete pipeline: one iteration
CompletePipeline(rets) ==
    /\ pass.pc = "complete"
    /\ LET order == list_for_each_entry(widget_list) IN
       IF pass.idx >= Len(order)
       THEN /\ pass' = [ LoopOver("complete") EXCEPT !.ret = 0 ]
            /\ widget_list' = widget_list
       ELSE LET at == order[pass.idx + 1]
                swidget == widget_list[at]
            IN  IF swidget.id = "scheduler"
                THEN \E ret \in rets :
                       /\ widget_list' = [widget_list EXCEPT ![at].complete = ret]
                       /\ pass' = [ pass EXCEPT
                                      !.log = Append(@, Event("complete", "complete",
                                                              swidget.comp_id, 0,
                                                              "", ret)),
                                      !.idx = @ + 1 ]
                ELSE /\ pass' = Skip
                     /\ widget_list' = widget_list
    /\ UNCHANGED <<tx_mutex, disable_ipc_tx, msg, cs, dsp, abi_version, core,
                   route_list, dai_list, kcontrol_list>>

\* sof_restore_kcontrols: one iteration of its loop
sof_restore_kcontrols(rets) ==
    /\ pass.pc = "kcontrols"
    /\ LET order == list_for_each_entry(kcontrol_list) IN
       IF pass.idx >= Len(order)
       THEN /\ pass' = [ pass EXCEPT !.pc = "done", !.ret = 0 ]
            /\ kcontrol_list' = kcontrol_list
       ELSE LET at == order[pass.idx + 1]
                scontrol == kcontrol_list[at]
            IN  /\ kcontrol_list' =
                     [kcontrol_list EXCEPT ![at].readback_offset = 0]
                /\ LET ipc == ctrl_ipc(scontrol.cmd) IN
                   IF ipc = << >>
                   THEN pass' = Skip
                   ELSE \E ret \in rets :
                          pass' = AfterSend(Event("ctrl", ipc[1],
                                                  scontrol.comp_id, 0,
                                                  ipc[2], ret),
                                            ret < 0)
    /\ UNCHANGED <<tx_mutex, disable_ipc_tx, msg, cs, dsp, abi_version, core,
                   widget_list, route_list, dai_list>>

\* the pass has returned to the power-management core
PassReturn ==
    /\ pass.pc = "done"
    /\ pass' = IdlePass
    /\ UNCHANGED <<tx_mutex, disable_ipc_tx, msg, cs, dsp, abi_version, core,
                   widget_list, route_list, dai_list, kcontrol_list>>

\* the audio client of any of the topologies, over a channel at rest
InitPm ==
    /\ tx_mutex = 0
    /\ disable_ipc_tx = FALSE
    /\ msg = InitMsg
    /\ cs = [c \in Callers |-> IdleCs]
    /\ dsp = NoReplyOwed
    /\ abi_version = SOF_ABI_VER(3, 3, 0)
    /\ \E t \in Topologies : AudioInit(t[1], t[2], t[3], t[4])
    /\ CoreInit("BOOT_COMPLETE", <<>>)

PmNext ==
    \/ sof_audio_runtime_suspend
    \/ sof_destroy_pipelines(TxRets)
    \/ sof_audio_resume
    \/ RestoreWidget(TxRets)
    \/ RestoreRoute(TxRets)
    \/ RestoreDai(TxRets)
    \/ CompletePipeline(TxRets)
    \/ sof_restore_kcontrols(TxRets)
    \/ PassReturn

SpecPm == InitPm /\ [][PmNext]_vars

(* ------------------- the send under sdev->ipc_lock --------------------- *)

\* a lock that never makes anybody wait
spin_lock_irq_no_wait(lock) == TRUE

\* spin_lock_irq(&sdev->ipc_lock) can be taken
spin_lock_irq(lock) == lock = 0

\* the record of a receive step that follows, all of it fresh but the
\* positions the streams were told
NextRx == [ NoRx EXCEPT !.tick = 1 - rx.tick, !.told = rx.told ]

\* sof_ipc_tx_message_unlocked: the disabled check, then spin_lock_irq and
\* the initialisation of the message
SendLockIrq(c) ==
    /\ cs[c].pc = "unlocked"
    /\ tx_mutex = c
    /\ IF disable_ipc_tx
       THEN /\ cs' = [cs EXCEPT ![c].pc = "done", ![c].ret = ENODEV,
                                ![c].txcalls = @ + 1,
                                ![c].rets = Append(@, ENODEV)]
            /\ tx_mutex' = mutex_unlock(c, ENODEV)
            /\ UNCHANGED <<msg, ipc_lock>>
       ELSE /\ spin_lock_irq(ipc_lock)
            /\ ipc_lock' = c
            /\ msg' = [ msg EXCEPT !.header = 0,
                                   !.msg_size = cs[c].msg_bytes,
                                   !.reply_size = cs[c].reply_bytes,
                                   !.reply_error = 0 ]
            /\ cs' = [cs EXCEPT ![c].pc = "irq", ![c].txcalls = @ + 1]
            /\ tx_mutex' = tx_mutex
    /\ UNCHANGED <<disable_ipc_tx, dsp, abi_version, audio, fw_state, pcm_list, rx,
                   fw_version>>

\* sof_ipc_tx_message_unlocked: snd_sof_dsp_send_msg, under the lock
SendWrite(c, srs) ==
    /\ cs[c].pc = "irq"
    /\ ipc_lock = c
    /\ \E sr \in srs :
         /\ cs' = [cs EXCEPT ![c].pc = "written", ![c].ret = sr,
                             ![c].sent = Append(@, Frame(cs[c].msg_bytes, 0, 0, 0,
                                                         sr = 0))]
         /\ dsp' = IF sr = 0 THEN [ dsp EXCEPT !.owes = TRUE, !.said = <<>> ]
                   ELSE dsp
    /\ UNCHANGED <<tx_mutex, disable_ipc_tx, msg, abi_version, audio, core>>

\* a reply is expected whatever the transport said
reply_expected_always(ret) == TRUE

\* if (!ret) msg->ipc_complete = false;
reply_expected(ret) == ret = 0

\* sof_ipc_tx_message_unlocked: if (!ret) msg->ipc_complete = false; and
\* spin_unlock_irq, then on to tx_wait_done or out with the error
SendMark(c) ==
    /\ cs[c].pc = "written"
    /\ ipc_lock = c
    /\ ipc_lock' = 0
    /\ msg' = IF reply_expected(cs[c].ret)
              THEN [ msg EXCEPT !.ipc_complete = FALSE, !.by = "none" ]
              ELSE msg
    /\ IF cs[c].ret = 0
       THEN /\ cs' = [cs EXCEPT ![c].pc = "wait"]
            /\ tx_mutex' = tx_mutex
       ELSE /\ cs' = [cs EXCEPT ![c].pc = "done",
                                ![c].rets = Append(@, cs[c].ret)]
            /\ tx_mutex' = mutex_unlock(c, cs[c].ret)
    /\ UNCHANGED <<disable_ipc_tx, dsp, abi_version, audio, fw_state, pcm_list, rx,
                   fw_version>>

\* the platform's interrupt thread takes sdev->ipc_lock and hands a reply to
\* snd_sof_ipc_reply
IrqHandleReply(whose, status) ==
    /\ spin_lock_irq(ipc_lock)
    /\ LET out == snd_sof_ipc_reply(msg)
       IN  /\ msg' = ReplyReceived(msg, status, whose, 0)
           /\ rx' = [ NextRx EXCEPT !.kind = "reply", !.whose = whose,
                                    !.status = status, !.ret = out.ret,
                                    !.woke = out.woke ]
    /\ UNCHANGED <<tx_mutex, disable_ipc_tx, cs, abi_version, audio,
                   ipc_lock, fw_state, pcm_list, fw_version>>

\* the reply to the command the DSP was last given
IrqReply(statuses) ==
    /\ dsp.owes
    /\ \E status \in statuses :
         /\ IrqHandleReply("own", status)
         /\ dsp' = [ dsp EXCEPT !.owes = FALSE, !.said = <<status>> ]

\* the reply to a command whose sender has given up
IrqLateReply(statuses) ==
    /\ dsp.stale > 0
    /\ \E status \in statuses : IrqHandleReply("stale", status)
    /\ dsp' = [ dsp EXCEPT !.stale = @ - 1 ]

\* a reply although the DSP owes none
IrqSpuriousReply(statuses) ==
    /\ ~dsp.owes
    /\ dsp.stale = 0
    /\ \E status \in statuses : IrqHandleReply("spurious", status)
    /\ dsp' = dsp

\* One sender through sof_ipc_tx_message_no_pm, its send taken step by step,
\* against replies that come whenever the interrupt thread can run.
IrqNext ==
    \/ CallNoPm(1, {FullSize})
    \/ mutex_lock(1)
    \/ SendLockIrq(1)
    \/ SendWrite(1, SendRets)
    \/ SendMark(1)
    \/ TxWait(1)
    \/ Return(1)
    \/ IrqReply({-5, 0})
    \/ IrqLateReply({0})
    \/ IrqSpuriousReply({0})
    \/ snd_sof_ipc_free

SpecIrq == Init /\ [][IrqNext]_vars

(* ------------------------- messages from the DSP ----------------------- *)

\* the last stream direction
SNDRV_PCM_STREAM_CAPTURE == 1

FwStates ==
    {"BOOT_NOT_STARTED", "BOOT_IN_PROGRESS", "BOOT_READY_FAILED", "BOOT_COMPLETE"}

\* results of the fw_ready operation
FwReadyRets == {-5, 0}

\* stream positions the DSP reports
PosnVals == {1, 2}

\* component ids the DSP names in stream messages; 9 is no stream's
MsgIds == {5, 7, 9}

\* the component ids of the streams that are open
StreamIds == {5, 7}

\* one direction of a PCM: substream is "none" for a NULL substream,
\* "no_runtime" for one without a runtime, "runtime" for an open one
Stream(id, substream, nowake) ==
    [ comp_id |-> id, posn |-> 0, substream |-> substream,
      state |-> "RUNNING", no_period_wakeup |-> nowake ]

\* a PCM with its playback and its capture direction
Pcm(playback, capture) ==
    [ stream |-> [ d \in 0..SNDRV_PCM_STREAM_CAPTURE |->
                     IF d = 0 THEN playback ELSE capture ],
      prepared |-> [ d \in 0..SNDRV_PCM_STREAM_CAPTURE |-> TRUE ] ]

\* the PCM lists looked at
PcmLists ==
    { <<>>,
      << Pcm(Stream(5, "runtime", TRUE), Stream(7, "runtime", FALSE)) >>,
      << Pcm(Stream(5, "runtime", FALSE), Stream(6, "none", FALSE)),
         Pcm(Stream(8, "no_runtime", FALSE), Stream(7, "runtime", TRUE)) >> }

\* a header as the masks of snd_sof_ipc_msgs_rx and sof_audio_rx_message
\* take it apart: global type, command type, message id
Hdr(glb, type, id) == [ glb |-> glb, type |-> type, id |-> id ]

GlbOther ==
    {"GLB_REPLY", "FW_READY", "GLB_COMPOUND", "GLB_TPLG_MSG", "GLB_PM_MSG",
     "GLB_COMP_MSG", "unknown"}

\* the headers the DSP sends
Hdrs ==
    { Hdr(g, "none", 0) : g \in GlbOther }
    \cup { Hdr("GLB_STREAM_MSG", t, i) :
             t \in {"STREAM_POSITION", "STREAM_TRIG_XRUN", "other"}, i \in MsgIds }
    \cup { Hdr("GLB_TRACE_MSG", t, 0) : t \in {"TRACE_DMA_POSITION", "other"} }

\* a client of the core device
Client(type, rx_cb) == [ type |-> type, sof_client_ipc_rx |-> rx_cb ]

\* the client lists looked at: the audio client alone, and behind a client
\* of another type and an audio client without a callback
ClientLists ==
    { << Client("AUDIO", TRUE) >>,
      << Client("TEST", TRUE), Client("AUDIO", FALSE), Client("AUDIO", TRUE) >> }

\* a lookup that only looks at the playback direction
snd_sof_find_spcm_comp_playback(list, comp_id) ==
    LET hits == { k \in 1..Len(list) : list[k].stream[0].comp_id = comp_id }
    IN  IF hits = {} THEN <<>>
        ELSE << CHOOSE k \in hits : \A j \in hits : k <= j, 0 >>

\* snd_sof_find_spcm_comp: the first PCM and direction with this component
\* id as <<index, direction>>, or <<>> for NULL
snd_sof_find_spcm_comp(list, comp_id) ==
    LET all == { <<k, i>> : k \in 1..Len(list),
                            i \in 0..SNDRV_PCM_STREAM_CAPTURE }
        hits == { h \in all : list[h[1]].stream[h[2]].comp_id = comp_id }
    IN  IF hits = {} THEN <<>>
        ELSE CHOOSE h \in hits :
               \A g \in hits : h[1] < g[1] \/ (h[1] = g[1] /\ h[2] <= g[2])

\* what a client callback did: the PCM list it leaves, the streams it
\* signalled a period for, the streams it stopped, and whether it went
\* through a substream that is not there
Handled(list, elapsed, stopped, oops) ==
    [ pcm_list |-> list, elapsed |-> elapsed, stopped |-> stopped,
      oops |-> oops ]

\* a position update that lands in every stream
ipc_period_elapsed_everywhere(list, msg_id, posn) ==
    Handled([ k \in 1..Len(list) |->
                [ list[k] EXCEPT !.stream =
                    [ d \in 0..SNDRV_PCM_STREAM_CAPTURE |->
                        [ list[k].stream[d] EXCEPT !.posn = posn ] ] ] ],
            <<>>, <<>>, FALSE)

\* ipc_period_elapsed
ipc_period_elapsed(list, msg_id, posn) ==
    LET at == snd_sof_find_spcm_comp(list, msg_id)
    IN  IF at = <<>>
        THEN Handled(list, <<>>, <<>>, FALSE)
        ELSE LET stream == list[at[1]].stream[at[2]]
                 copied == [ list EXCEPT ![at[1]].stream[at[2]].posn = posn ]
             IN  IF stream.substream # "runtime"
                 THEN Handled(copied, <<>>, <<>>, TRUE)
                 ELSE IF ~stream.no_period_wakeup
                 THEN Handled(copied, <<at>>, <<>>, FALSE)
                 ELSE Handled(copied, <<>>, <<>>, FALSE)

\* ipc_xrun; xrun_stop says whether the build has
\* CONFIG_SND_SOC_SOF_DEBUG_XRUN_STOP
ipc_xrun(list, msg_id, posn, xrun_stop) ==
    LET at == snd_sof_find_spcm_comp(list, msg_id)
    IN  IF at = <<>> \/ ~xrun_stop
        THEN Handled(list, <<>>, <<>>, FALSE)
        ELSE Handled([ list EXCEPT ![at[1]].stream[at[2]].posn = posn ],
                     <<>>, <<at>>, FALSE)

\* a client callback that takes any other stream message for a position
sof_audio_rx_message_default_posn(list, hdr, posn, xrun_stop) ==
    CASE hdr.type = "STREAM_TRIG_XRUN" -> ipc_xrun(list, hdr.id, posn, xrun_stop)
      [] OTHER -> ipc_period_elapsed(list, hdr.id, 1)

\* sof_audio_rx_message
sof_audio_rx_message(list, hdr, posn, xrun_stop) ==
    CASE hdr.type = "STREAM_POSITION" -> ipc_period_elapsed(list, hdr.id, posn)
      [] hdr.type = "STREAM_TRIG_XRUN" -> ipc_xrun(list, hdr.id, posn, xrun_stop)
      [] OTHER -> Handled(list, <<>>, <<>>, FALSE)

\* the clients whose callback ipc_stream_message calls, in list order
Called(clients) ==
    SelectSeq(clients, LAMBDA c : c.type = "AUDIO" /\ c.sof_client_ipc_rx)

\* the stream dispatch under the send lock
stream_message_lock_tx == "tx_mutex"

\* mutex_lock(&sdev->client_mutex): the lock ipc_stream_message holds
stream_message_lock == "client_mutex"

\* the locks snd_sof_ipc_msgs_rx takes on the way through the handler of a
\* message: the client-list lock in ipc_stream_message, none elsewhere
rx_locks(hdr) ==
    IF hdr.glb = "GLB_STREAM_MSG" THEN {stream_message_lock} ELSE {}

\* a handler that needs the send lock can only run while no sender holds it
CanTake(locks) == "tx_mutex" \in locks => tx_mutex = 0

\* ipc_stream_message: the callback of every audio client that has one
RECURSIVE ipc_stream_message(_, _, _, _, _)
ipc_stream_message(n, list, hdr, posn, xrun_stop) ==
    IF n = 0
    THEN Handled(list, <<>>, <<>>, FALSE)
    ELSE LET out == sof_audio_rx_message(list, hdr, posn, xrun_stop)
             rest == ipc_stream_message(n - 1, out.pcm_list, hdr, posn, xrun_stop)
         IN  Handled(rest.pcm_list, out.elapsed \o rest.elapsed,
                     out.stopped \o rest.stopped, out.oops \/ rest.oops)

\* a readiness check that does not look at the boot state
boot_state_not_checked(state) == TRUE

\* if (sdev->fw_state == SOF_FW_BOOT_IN_PROGRESS)
boot_in_progress(state) == state = "BOOT_IN_PROGRESS"

\* snd_sof_ipc_msgs_rx: the boot state and PCM list it leaves and what it
\* did on the way.  err is what fw_ready returns when it is called.
snd_sof_ipc_msgs_rx(state, list, clients, hdr, posn, err, xrun_stop) ==
    LET quiet == [ fw_state |-> state, pcm_list |-> list, validated |-> FALSE,
                   boot_woken |-> FALSE, elapsed |-> <<>>, stopped |-> <<>>,
                   trace |-> 0, calls |-> 0, locks |-> {}, oops |-> FALSE ]
    IN  CASE hdr.glb = "FW_READY" ->
               IF boot_in_progress(state)
               THEN [ quiet EXCEPT !.fw_state = IF err < 0 THEN "BOOT_READY_FAILED"
                                                ELSE "BOOT_COMPLETE",
                                   !.validated = TRUE,
                                   !.boot_woken = TRUE ]
               ELSE quiet
          [] hdr.glb = "GLB_STREAM_MSG" ->
               LET n == Len(Called(clients))
                   out == ipc_stream_message(n, list, hdr, posn, xrun_stop)
               IN  [ quiet EXCEPT !.pcm_list = out.pcm_list,
                                  !.elapsed = out.elapsed,
                                  !.stopped = out.stopped,
                                  !.calls = n,
                                  !.locks = rx_locks(hdr),
                                  !.oops = out.oops ]
          [] hdr.glb = "GLB_TRACE_MSG" ->
               IF hdr.type = "TRACE_DMA_POSITION"
               THEN [ quiet EXCEPT !.trace = posn ]
               ELSE quiet
          [] OTHER -> quiet

\* the DSP names a stream in a message only when the stream is open on the
\* host side: the id is no stream's, or it is that of a stream with a runtime
Notifiable(list, hdr) ==
    LET at == snd_sof_find_spcm_comp(list, hdr.id)
    IN  IF hdr.glb # "GLB_STREAM_MSG" THEN TRUE
        ELSE IF at = <<>> THEN TRUE
        ELSE list[at[1]].stream[at[2]].substream = "runtime"

\* the positions the streams were last told: a position message replaces
\* what was known of its stream, an XRUN message voids it
Told(told, hdr, posn) ==
    IF hdr.glb # "GLB_STREAM_MSG" \/ hdr.id \notin StreamIds THEN told
    ELSE IF hdr.type = "STREAM_POSITION"
    THEN { t \in told : t[1] # hdr.id } \cup { << hdr.id, "posn", posn >> }
    ELSE IF hdr.type = "STREAM_TRIG_XRUN"
    THEN { t \in told : t[1] # hdr.id } \cup { << hdr.id, "xrun", 0 >> }
    ELSE told

\* the values an input of snd_sof_ipc_msgs_rx can take for this header:
\* all of them where the header's handler reads the input, one otherwise
ReadBy(read, vals) ==
    IF read THEN vals ELSE { CHOOSE v \in vals : TRUE }

\* the message is a stream message of one of these types
StreamMsg(hdr, types) == hdr.glb = "GLB_STREAM_MSG" /\ hdr.type \in types

\* the interrupt thread hands a message of the DSP to snd_sof_ipc_msgs_rx
RxMessage(hdrs, posns, errs, builds) ==
    /\ \E hdr \in hdrs :
       \E posn \in ReadBy(StreamMsg(hdr, {"STREAM_POSITION", "STREAM_TRIG_XRUN"})
                             \/ hdr = Hdr("GLB_TRACE_MSG", "TRACE_DMA_POSITION", 0),
                           posns),
          err \in ReadBy(hdr.glb = "FW_READY" /\ fw_state = "BOOT_IN_PROGRESS",
                          errs),
          xrun_stop \in ReadBy(StreamMsg(hdr, {"STREAM_TRIG_XRUN"}), builds),
          clients \in ReadBy(StreamMsg(hdr, {"STREAM_POSITION"}), ClientLists) :
         LET out == snd_sof_ipc_msgs_rx(fw_state, pcm_list, clients, hdr, posn,
                                        err, xrun_stop)
         IN  /\ Notifiable(pcm_list, hdr)
             /\ CanTake(rx_locks(hdr))
             /\ fw_state' = out.fw_state
             /\ pcm_list' = out.pcm_list
             /\ rx' = [ NextRx EXCEPT !.kind = "msg", !.cmd = hdr,
                                      !.status = posn,
                                      !.ret = err,
                                      !.validated = out.validated,
                                      !.boot_woken = out.boot_woken,
                                      !.elapsed = out.elapsed,
                                      !.stopped = out.stopped,
                                      !.trace = out.trace,
                                      !.calls = out.calls,
                                      !.locks = out.locks,
                                      !.busy = ~msg.ipc_complete,
                                      !.told = Told(rx.told, hdr, posn) ]
    /\ UNCHANGED <<tx_mutex, disable_ipc_tx, msg, cs, dsp, abi_version, audio,
                   ipc_lock, fw_version>>

\* the PCM list with two PCMs
TwoPcms == CHOOSE list \in PcmLists : Len(list) = 2

\* a device in one of the given boot states with one of the given PCM lists
InitRx(states, lists) ==
    /\ tx_mutex = 0
    /\ disable_ipc_tx = FALSE
    /\ msg = InitMsg
    /\ cs = [c \in Callers |-> IdleCs]
    /\ dsp = NoReplyOwed
    /\ abi_version = SOF_ABI_VER(3, 3, 0)
    /\ AudioInit(<<>>, <<>>, <<>>, <<>>)
    /\ \E state \in states, pcms \in lists : CoreInit(state, pcms)

\* the headers sent while a command is on its way: stream messages, and one
\* header of every other class that has a handler
BusyHdrs ==
    { h \in Hdrs : h.glb = "GLB_STREAM_MSG" /\ h.type = "STREAM_POSITION" }
    \cup { Hdr("GLB_STREAM_MSG", "STREAM_TRIG_XRUN", 5),
           Hdr("GLB_REPLY", "none", 0), Hdr("FW_READY", "none", 0),
           Hdr("GLB_TRACE_MSG", "TRACE_DMA_POSITION", 0) }

\* One sender through sof_ipc_tx_message_no_pm while the DSP sends replies
\* and messages.
RxNext ==
    \/ CallNoPm(1, {FullSize})
    \/ mutex_lock(1)
    \/ TxSend(1, {0})
    \/ TxWait(1)
    \/ Return(1)
    \/ IrqReply({-5, 0})
    \/ IrqLateReply({0})
    \/ RxMessage(BusyHdrs, PosnVals, FwReadyRets, BOOLEAN)

InitBusy == InitRx({"BOOT_COMPLETE"}, {TwoPcms})

SpecRx == InitBusy /\ [][RxNext]_vars

\* Messages of every class, in every boot state, with no command on its way.
MsgNext == RxMessage(Hdrs, PosnVals, FwReadyRets, BOOLEAN)

\* every boot state without PCMs, and every PCM list once booted
InitAnyBoot ==
    InitRx(FwStates, {<<>>}) \/ InitRx({"BOOT_COMPLETE"}, PcmLists \ {<<>>})

SpecMsg == InitAnyBoot /\ [][MsgNext]_vars

\* the headers no handler acts on: a class other than firmware-ready,
\* stream and trace, or a stream or trace message of another type
DropHdrs ==
    { h \in Hdrs :
        \/ h.glb \notin {"FW_READY", "GLB_STREAM_MSG", "GLB_TRACE_MSG"}
        \/ h.glb \in {"GLB_STREAM_MSG", "GLB_TRACE_MSG"} /\ h.type = "other" }

\* One sender through sof_ipc_tx_message_no_pm while the DSP sends its
\* reply and messages that no handler acts on.
DropNext ==
    \/ CallNoPm(1, {FullSize})
    \/ mutex_lock(1)
    \/ TxSend(1, {0})
    \/ TxWait(1)
    \/ Return(1)
    \/ IrqReply({0})
    \/ RxMessage(DropHdrs, PosnVals, FwReadyRets, BOOLEAN)

\* booting or booted, with two PCMs
InitDrop == InitRx({"BOOT_IN_PROGRESS", "BOOT_COMPLETE"}, {TwoPcms})

SpecDrop == InitDrop /\ [][DropNext]_vars

(* ------------------------ the ABI version check ----------------------- *)

\* SOF_ABI_VERSION_MAJOR: the bits above the minor and patch fields
SOF_ABI_VERSION_MAJOR(abi) == abi \div 16777216

\* SOF_ABI_VERSION_INCOMPATIBLE: the major numbers differ
SOF_ABI_VERSION_INCOMPATIBLE(sof_ver, client_ver) ==
    SOF_ABI_VERSION_MAJOR(sof_ver) # SOF_ABI_VERSION_MAJOR(client_ver)

\* ABI versions a firmware reports: older, equal and newer than the hosts
\* below, and of another major number on either side
ValidAbis ==
    { SOF_ABI_VER(2, 9, 0), SOF_ABI_VER(3, 2, 0), SOF_ABI_VER(3, 3, 0),
      SOF_ABI_VER(3, 3, 1), SOF_ABI_VER(3, 4, 0), SOF_ABI_VER(4, 0, 0) }

\* SOF_ABI_VERSION of the kernel builds looked at
HostAbis == { SOF_ABI_VER(3, 3, 0), SOF_ABI_VER(3, 4, 0) }

\* v->major and v->minor of the firmware builds looked at
FwVersions == { <<1, 4>>, <<1, 5>> }

\* a check that lets a newer firmware through whatever the build says
snd_sof_ipc_valid_lenient(v, host, strict, old) ==
    IF SOF_ABI_VERSION_INCOMPATIBLE(host, v.abi_version)
    THEN [ ret |-> EINVAL, fw_version |-> old ]
    ELSE [ ret |-> 0, fw_version |-> v ]

\* snd_sof_ipc_valid on the version v of sdev->fw_ready: what it returns and
\* what sdev->fw_version is afterwards.  host is SOF_ABI_VERSION and strict
\* says whether the build has CONFIG_SND_SOC_SOF_STRICT_ABI_CHECKS
snd_sof_ipc_valid(v, host, strict, old) ==
    IF SOF_ABI_VERSION_INCOMPATIBLE(host, v.abi_version)
    THEN [ ret |-> EINVAL, fw_version |-> old ]
    ELSE IF v.abi_version > host /\ strict
    THEN [ ret |-> EINVAL, fw_version |-> old ]
    ELSE [ ret |-> 0, fw_version |-> v ]

\* the platform's fw_ready handler calls snd_sof_ipc_valid
IpcValid(hosts, stricts, versions) ==
    /\ \E host \in hosts, strict \in stricts, fv \in versions :
         LET v == Version(fv[1], fv[2], abi_version)
             out == snd_sof_ipc_valid(v, host, strict, fw_version)
         IN  /\ fw_version' = out.fw_version
             /\ rx' = [ NextRx EXCEPT !.kind = "valid", !.ret = out.ret,
                                      !.host = host, !.strict = strict,
                                      !.version = v ]
    /\ UNCHANGED <<tx_mutex, disable_ipc_tx, msg, cs, dsp, abi_version, audio,
                   ipc_lock, fw_state, pcm_list>>

\* a firmware of any of the ABI versions has sent its ready message
InitValid == InitWith(ValidAbis)

ValidNext == IpcValid(HostAbis, BOOLEAN, FwVersions)

SpecValid == InitValid /\ [][ValidNext]_vars

(* ------------------- the power-management callbacks -------------------- *)

\* callbacks the power-management core makes in one behaviour
MaxCallbacks == 4

\* results of snd_sof_dsp_hw_params_upon_resume
HwParamsRets == {-5, 0}

\* runtime states of a substream
PcmStates == {"RUNNING", "PAUSED", "SUSPENDED"}

\* one direction of a PCM in a given runtime state
StreamIn(id, substream, state) ==
    [ Stream(id, substream, FALSE) EXCEPT !.state = state ]

\* the PCM lists a suspend is looked at with: one PCM whose playback
\* direction has every substream and state, prepared or not, next to a
\* capture direction that is closed, running or suspended
SuspendPcmLists ==
    { << [ Pcm(StreamIn(5, s[1], s[2]), StreamIn(7, s[3][1], s[3][2]))
             EXCEPT !.prepared[0] = s[4] ] >> :
        s \in {"none", "no_runtime", "runtime"} \X PcmStates
              \X { <<"none", "RUNNING">>, <<"no_runtime", "SUSPENDED">>,
                    <<"runtime", "RUNNING">>, <<"runtime", "SUSPENDED">> }
              \X BOOLEAN }

\* one PCM suspended in both directions
SuspendedPcm ==
    << Pcm(StreamIn(5, "runtime", "SUSPENDED"),
           StreamIn(7, "runtime", "SUSPENDED")) >>

\* a suspend that takes every open substream for a suspended one
suspended_any_state(stream) == stream.substream = "runtime"

\* if (!substream || !substream->runtime) continue;
\* state = substream->runtime->status->state;
\* if (state == SNDRV_PCM_STATE_SUSPENDED)
suspended(stream) ==
    IF stream.substream # "runtime" THEN FALSE ELSE stream.state = "SUSPENDED"

\* the PCM list after the loops of sof_set_hw_params_upon_resume
sof_set_hw_params_upon_resume(list) ==
    [ k \in 1..Len(list) |->
        [ list[k] EXCEPT !.prepared =
            [ dir \in 0..SNDRV_PCM_STREAM_CAPTURE |->
                IF suspended(list[k].stream[dir]) THEN FALSE ELSE @[dir] ] ] ]

\* the callbacks made so far, in order
Callbacks(log) == SelectSeq(log, LAMBDA e : e.op = "call")

\* where the power-management core has the device after the callbacks so
\* far: a suspend that failed leaves it active, a resume that failed is the
\* end of the transition
PowerState(q) ==
    CASE q.fn = "destroy" /\ q.ret >= 0 -> "runtime_suspended"
      [] q.fn = "suspend" /\ q.ret >= 0 -> "suspended"
      [] q.fn = "restore" /\ q.ret < 0 -> "failed"
      [] OTHER -> "active"

\* the power-management core makes a callback when none is running, suspends
\* an active device and resumes a suspended one
MayCall(cb) ==
    /\ pass.pc = "idle"
    /\ Len(Callbacks(pass.log)) < MaxCallbacks
    /\ IF cb = "resume"
       THEN PowerState(pass) \in {"runtime_suspended", "suspended"}
       ELSE PowerState(pass) = "active"

\* the pass a callback starts, with the callback noted in the log
PassOf(cb, fn, pc) ==
    [ pass EXCEPT !.pc = pc, !.fn = fn, !.idx = 0, !.ret = 0,
                  !.log = Append(@, Event("call", cb, 0, 0, "", 0)) ]

\* sof_audio_runtime_suspend called by the power-management core
RuntimeSuspend ==
    /\ MayCall("runtime_suspend")
    /\ pass' = PassOf("runtime_suspend", "destroy", "destroy")
    /\ UNCHANGED <<tx_mutex, disable_ipc_tx, msg, cs, dsp, abi_version, core,
                   widget_list, route_list, dai_list, kcontrol_list>>

\* sof_audio_suspend called by the power-management core: the whole of
\* sof_set_hw_params_upon_resume
sof_audio_suspend(rets) ==
    /\ MayCall("suspend")
    /\ pcm_list' = sof_set_hw_params_upon_resume(pcm_list)
    /\ \E ret \in rets :
         pass' = [ PassOf("suspend", "suspend", "done") EXCEPT !.ret = ret ]
    /\ UNCHANGED <<tx_mutex, disable_ipc_tx, msg, cs, dsp, abi_version,
                   ipc_lock, fw_state, rx, fw_version,
                   widget_list, route_list, dai_list, kcontrol_list>>

\* sof_audio_resume called by the power-management core
Resume ==
    /\ MayCall("resume")
    /\ pass' = PassOf("resume", "restore", "widgets")
    /\ UNCHANGED <<tx_mutex, disable_ipc_tx, msg, cs, dsp, abi_version, core,
                   widget_list, route_list, dai_list, kcontrol_list>>

\* a callback returns its result to the power-management core
CallbackReturn ==
    /\ pass.pc = "done"
    /\ pass' = [ pass EXCEPT !.pc = "idle", !.idx = 0 ]
    /\ UNCHANGED <<tx_mutex, disable_ipc_tx, msg, cs, dsp, abi_version, core,
                   widget_list, route_list, dai_list, kcontrol_list>>

\* a loaded topology with a component that has no payload
ThreeWidgets ==
    << Widget(1, "scheduler", TRUE), Widget(2, "pga", FALSE),
       Widget(3, "dai_out", TRUE) >>

\* an active device: a topology is loaded and a PCM is open
InitSleep ==
    /\ tx_mutex = 0
    /\ disable_ipc_tx = FALSE
    /\ msg = InitMsg
    /\ cs = [c \in Callers |-> IdleCs]
    /\ dsp = NoReplyOwed
    /\ abi_version = SOF_ABI_VER(3, 3, 0)
    /\ \/ /\ AudioInit(SomeWidgets, SomeRoutes, SomeDais, SomeKcontrols)
          /\ \E pcms \in SuspendPcmLists : CoreInit("BOOT_COMPLETE", pcms)
       \/ /\ AudioInit(ThreeWidgets, SomeRoutes, SomeDais, SomeKcontrols)
          /\ CoreInit("BOOT_COMPLETE", SuspendedPcm)

SleepNext ==
    \/ RuntimeSuspend
    \/ sof_audio_suspend(HwParamsRets)
    \/ Resume
    \/ sof_destroy_pipelines(TxRets)
    \/ RestoreWidget(TxRets)
    \/ RestoreRoute(TxRets)
    \/ RestoreDai(TxRets)
    \/ CompletePipeline(TxRets)
    \/ sof_restore_kcontrols(TxRets)
    \/ CallbackReturn

SpecSleep == InitSleep /\ [][SleepNext]_vars

(* ------------------------------ claims --------------------------------- *)

\* caller c hands a frame to the transport in this step
Wrote(c) == Len(cs'[c].sent) > Len(cs[c].sent)

\* caller c's call returns in this step
Returns(c) == cs[c].pc # "done" /\ cs'[c].pc = "done"

\* caller c stops waiting for a reply in this step
WaitEnds(c) == cs[c].pc = "wait" /\ cs'[c].pc # "wait"

PlainFns == {"tx", "no_pm"}

\* C1: at most one command is in flight at any instant, and no command is
\* written to the transport while the sender of an earlier one still waits.
C1_OneInFlight ==
    [][ /\ \A c \in Callers : Wrote(c) => Waiting = {}
        /\ Cardinality(Waiting') <= 1 ]_vars

\* C1 witness: one sender waits for its reply while another is held at the
\* send lock.
C1_Witness ==
    \E c, d \in Callers :
        /\ c # d
        /\ cs[c].pc = "wait"
        /\ Len(cs[c].sent) > 0
        /\ cs[d].pc = "lock"

\* C2: a send returns through a completion only when the reply to its own
\* command completed it; a reply to a command that timed out earlier never
\* completes a later command.
C2_OwnReplyOnly ==
    \A c \in Callers :
        (cs[c].pc = "done" /\ cs[c].how = "reply") => cs[c].by = "own"

\* C3 (as claimed): once the channel is disabled every send that returns
\* returns ENODEV and has written nothing.
C3_AlwaysEnodev ==
    [][ \A c \in Callers :
          (disable_ipc_tx /\ Returns(c))
              => (cs'[c].ret = ENODEV /\ cs'[c].sent = <<>>) ]_vars

\* C3 (amended): the disabled flag is never cleared; once it is set no send
\* writes to the transport, every call of the send primitive returns ENODEV,
\* and a send returns something else only when it is rejected before the
\* primitive is reached: ENOBUFS for an oversized plain send, the error of a
\* failed D0 request, or a large transfer that sends no message at all.
C3_DisabledForGood ==
    [][ /\ disable_ipc_tx => disable_ipc_tx'
        /\ \A c \in Callers :
             (disable_ipc_tx /\ Returns(c)) =>
               LET r == cs'[c] IN
               /\ r.sent = <<>>
               /\ r.txcalls > 0 => r.ret = ENODEV
               /\ r.fn \in PlainFns =>
                    \/ r.ret = ENODEV /\ r.txcalls = 1
                    \/ r.pm_ret < 0 /\ r.ret = r.pm_ret
                    \/ /\ r.ret = ENOBUFS
                       /\ (r.msg_bytes > SOF_IPC_MSG_MAX_SIZE
                             \/ r.reply_bytes > SOF_IPC_MSG_MAX_SIZE)
               /\ r.fn = "large" => (r.ret = ENODEV \/ r.txcalls = 0) ]_vars

\* C3 witness: after snd_sof_ipc_free a send reached the primitive and came
\* back with ENODEV, nothing written.
C3_Witness ==
    \E c \in Callers :
        /\ disable_ipc_tx
        /\ cs[c].pc = "done"
        /\ cs[c].ret = ENODEV
        /\ cs[c].txcalls = 1
        /\ cs[c].sent = <<>>

\* C4: a plain send whose payload or expected reply is larger than the
\* maximum returns ENOBUFS at once: no lock taken, nothing written, the
\* message slot untouched; sizes up to and including the maximum pass the
\* check and go on to the send lock.
C4_SizeCheck ==
    [][ \A c \in Callers :
          ( /\ cs[c].pc = "idle"
            /\ cs'[c].fn \in PlainFns
            /\ cs'[c].pm_ret >= 0 ) =>
            LET r == cs'[c] IN
            IF r.msg_bytes > SOF_IPC_MSG_MAX_SIZE
                 \/ r.reply_bytes > SOF_IPC_MSG_MAX_SIZE
            THEN /\ r.pc = "done"
                 /\ r.ret = ENOBUFS
                 /\ r.locks = 0
                 /\ r.txcalls = 0
                 /\ r.sent = <<>>
                 /\ UNCHANGED <<tx_mutex, msg, disable_ipc_tx, dsp>>
            ELSE r.pc = "lock" ]_vars

\* C4 witness: one send was refused with ENOBUFS for a reply one byte too
\* large.
C4_Witness ==
    \E c \in Callers :
        /\ cs[c].pc = "done"
        /\ cs[c].fn = "no_pm"
        /\ cs[c].reply_bytes = SOF_IPC_MSG_MAX_SIZE + 1
        /\ cs[c].msg_bytes <= SOF_IPC_MSG_MAX_SIZE
        /\ cs[c].ret = ENOBUFS
        /\ cs[c].locks = 0

\* C5: a send that ends by timeout returns ETIMEDOUT, has run the firmware
\* exception handler exactly once and has written each of its commands to the
\* transport exactly once (a plain send: one write in all).
C5_TimeoutOnce ==
    \A c \in Callers :
        /\ Len(cs[c].sent) <= cs[c].txcalls
        /\ cs[c].fn \in PlainFns => cs[c].txcalls <= 1
        /\ (cs[c].pc = "done" /\ cs[c].how = "timeout") =>
              /\ cs[c].ret = ETIMEDOUT
              /\ cs[c].fwexc = 1
              /\ Len(cs[c].sent) = cs[c].txcalls
              /\ cs[c].fn \in PlainFns => Len(cs[c].sent) = 1
              /\ \A k \in 1..Len(cs[c].sent) : cs[c].sent[k].msg_index = k - 1

\* C5 witness: a plain send has timed out.
C5_Witness ==
    \E c \in Callers :
        /\ cs[c].pc = "done"
        /\ cs[c].fn \in PlainFns
        /\ cs[c].how = "timeout"
        /\ cs[c].ret = ETIMEDOUT

\* C6: every send that got past its argument checks returns, whatever the
\* other senders and the DSP do.
C6_EverySendReturns ==
    \A c \in Callers :
        (cs[c].pc \in {"lock", "unlocked", "loop", "wait"}) ~> (cs[c].pc = "done")

\* C6 witness: a sender that had to queue for the lock behind a command the
\* DSP never answered: the first has timed out, the second now waits.
C6_Witness ==
    \E c, d \in Callers :
        /\ c # d
        /\ cs[c].pc = "done"
        /\ cs[c].how = "timeout"
        /\ cs[d].pc = "wait"
        /\ ~msg.ipc_complete

\* C7: a send that ends by a completion returns the status the DSP reported
\* for that very command, copies the reply only when that status is not an
\* error, and leaves the disabled flag as it was.
C7_OwnStatus ==
    [][ \A c \in Callers :
          (WaitEnds(c) /\ cs'[c].how = "reply") =>
             /\ dsp.said = << cs'[c].ret >>
             /\ cs'[c].copied => cs'[c].ret >= 0
             /\ disable_ipc_tx' = disable_ipc_tx ]_vars

\* C8: when a send ends with a timeout or a device error the send lock is
\* free and the channel is not disabled.
C8_StillUsable ==
    [][ \A c \in Callers :
          (WaitEnds(c) /\ cs'[c].ret < 0) =>
             /\ cs'[c].pc = "done"
             /\ tx_mutex' = 0
             /\ ~disable_ipc_tx' ]_vars

\* C8 witness: one sender's command has failed (timeout or device error) and
\* the next command, written by another sender after that, has been
\* completed by its own reply with status 0.
C8_Witness ==
    \E c, d \in Callers :
        /\ c # d
        /\ cs[c].pc = "done"
        /\ cs[c].how \in {"timeout", "reply"}
        /\ cs[c].ret < 0
        /\ cs[d].pc = "wait"
        /\ tx_mutex = d
        /\ msg.ipc_complete
        /\ msg.by = "own"
        /\ msg.reply_error = 0

\* C9: sof_ipc_tx_message asks for D0 exactly once, before anything else; if
\* that fails it returns the request's error with no lock taken and nothing
\* written; sof_ipc_tx_message_no_pm never asks.
C9_PowerFirst ==
    \A c \in Callers :
        /\ cs[c].fn = "tx" =>
              /\ cs[c].pmreq = 1
              /\ cs[c].pm_ret < 0 =>
                    /\ cs[c].pc = "done"
                    /\ cs[c].ret = cs[c].pm_ret
                    /\ cs[c].locks = 0
                    /\ cs[c].txcalls = 0
                    /\ cs[c].sent = <<>>
        /\ cs[c].fn = "no_pm" => cs[c].pmreq = 0

\* C9 witness: a sof_ipc_tx_message call came back with the error of its D0
\* request.
C9_Witness ==
    \E c \in Callers :
        /\ cs[c].pc = "done"
        /\ cs[c].fn = "tx"
        /\ cs[c].pm_ret = -5
        /\ cs[c].ret = -5
        /\ cs[c].sent = <<>>

\* the least n with n * d >= s
CeilDiv(s, d) == CHOOSE n \in 0..s : n * d >= s /\ (n = 0 \/ (n - 1) * d < s)

\* the transfer ran through its whole loop
RanToEnd(r) == r.pc = "done" /\ r.locks = 1 /\ r.i >= r.num_msg

\* C10: a chunked transfer of S bytes with header size H and capacity
\* C = maximum - H sends its messages with indices 0, 1, 2, ...; message i
\* carries min(S - i*C, C) elements, the index i and the bytes remaining
\* after it, and is H + count <= maximum long; there are never more than
\* ceil(S/C) messages and exactly that many once the loop has run to its end.
C10_Chunks ==
    \A c \in Callers :
        cs[c].fn = "large" =>
          LET r == cs[c]
              S == r.msg_bytes
              H == r.hdr_bytes
              C == SOF_IPC_MSG_MAX_SIZE - H
              n == Len(r.sent)
          IN  /\ n <= CeilDiv(S, C)
              /\ \A k \in 1..n :
                   LET f == r.sent[k]
                       before == (k - 1) * C
                   IN  /\ f.msg_index = k - 1
                       /\ f.num_elems = (IF S - before < C THEN S - before ELSE C)
                       /\ f.num_elems >= 1
                       /\ f.elems_remaining = S - (before + f.num_elems)
                       /\ f.size = H + f.num_elems
                       /\ f.size <= SOF_IPC_MSG_MAX_SIZE
              /\ RanToEnd(r) =>
                   /\ n = CeilDiv(S, C)
                   /\ n > 0 => r.sent[n].elems_remaining = 0

\* C10 witness: a transfer of three bytes in chunks of two has run to its
\* end: two messages, of two bytes and of one.
C10_Witness ==
    \E c \in Callers :
        /\ RanToEnd(cs[c])
        /\ cs[c].fn = "large"
        /\ cs[c].msg_bytes = 3
        /\ cs[c].hdr_bytes = SOF_IPC_MSG_MAX_SIZE - 2
        /\ Len(cs[c].sent) = 2
        /\ cs[c].sent[2].num_elems = 1

RECURSIVE Concat(_)
\* the sequences of ss joined in order
Concat(ss) == IF ss = <<>> THEN <<>> ELSE Head(ss) \o Concat(Tail(ss))

\* C11: in a chunked transfer the payloads of the 'set' messages, joined in
\* index order, are the caller's bytes from the first on, and all S of them
\* once every message has succeeded; for 'get' the caller's destination
\* holds, from its start, the payloads of the replies taken so far joined in
\* index order, nothing beyond them, and S bytes in all at the end.
C11_Concat ==
    \A c \in Callers :
        cs[c].fn = "large" =>
          LET r == cs[c]
              S == r.msg_bytes
              put == Concat(r.out_data)
              taken == Concat(SubSeq(r.in_data, 1, r.i))
          IN  IF r.send
              THEN /\ Len(put) <= S
                   /\ put = SubSeq(CtrlBytes(S), 1, Len(put))
                   /\ RanToEnd(r) => put = CtrlBytes(S)
              ELSE /\ Len(taken) <= S
                   /\ r.pc # "done" \/ r.locks = 1 =>
                        /\ SubSeq(r.dst, 1, Len(taken)) = taken
                        /\ \A j \in (Len(taken) + 1)..Len(r.dst) : r.dst[j] = 0
                   /\ RanToEnd(r) => Len(taken) = S

\* C11 witness: a 'get' of three bytes has run to its end in two messages
\* whose replies carried different contents.
C11_Witness ==
    \E c \in Callers :
        /\ RanToEnd(cs[c])
        /\ cs[c].fn = "large"
        /\ ~cs[c].send
        /\ cs[c].msg_bytes = 3
        /\ cs[c].in_data = << <<71, 72>>, <<81>> >>
        /\ SubSeq(cs[c].dst, 1, 3) = <<71, 72, 81>>

\* caller c is between the first and the last message of a chunked transfer
Inside(c) == cs[c].fn = "large" /\ cs[c].pc \in {"loop", "wait"}

\* C12: from before the first to after the last message of a chunked
\* transfer its caller holds the send lock, taken once, and no other caller
\* writes a command to the transport.
C12_LockHeldAcross ==
    [][ \A c \in Callers :
          Inside(c) =>
            /\ tx_mutex = c
            /\ cs[c].locks = 1
            /\ \A d \in Callers \ {c} : ~Wrote(d) ]_vars

\* C12 witness: a chunked transfer has written its second message while
\* another caller is still held at the send lock.
C12_Witness ==
    \E c, d \in Callers :
        /\ c # d
        /\ Inside(c)
        /\ Len(cs[c].sent) = 2
        /\ cs[d].pc = "lock"

\* C13: in a chunked transfer only the last call of the send primitive can
\* have failed; when it has, the transfer is over, returns that call's error
\* and has released the send lock, and the messages written are those with
\* indices 0, 1, ... up to the failing one, each once and nothing more.
C13_AbortOnFailure ==
    \A c \in Callers :
        cs[c].fn = "large" =>
          LET r == cs[c]
              n == Len(r.rets)
          IN  /\ \A k \in 1..(n - 1) : r.rets[k] >= 0
              /\ Len(r.sent) <= n + (IF r.pc = "wait" THEN 1 ELSE 0)
              /\ \A k \in 1..Len(r.sent) : r.sent[k].msg_index = k - 1
              /\ (n > 0 /\ r.rets[n] < 0) =>
                    /\ r.pc = "done"
                    /\ r.ret = r.rets[n]
                    /\ tx_mutex # c
                    /\ Len(r.sent) <= n

\* C13 witness: the second of three messages failed after being written and
\* the transfer ended there.
C13_Witness ==
    \E c \in Callers :
        /\ cs[c].fn = "large"
        /\ cs[c].pc = "done"
        /\ cs[c].num_msg = 3
        /\ Len(cs[c].rets) = 2
        /\ cs[c].rets[2] < 0
        /\ Len(cs[c].sent) = 2
        /\ cs[c].ret = cs[c].rets[2]

\* C14: with a firmware ABI below 3.3.0 a chunked transfer returns EINVAL
\* with no lock taken and nothing sent; from 3.3.0 on a transfer whose
\* allocation and control type are good is never turned away before the lock.
C14_AbiGate ==
    \A c \in Callers :
        cs[c].fn = "large" =>
          IF abi_version < SOF_ABI_VER(3, 3, 0)
          THEN /\ cs[c].pc = "done"
               /\ cs[c].ret = EINVAL
               /\ cs[c].locks = 0
               /\ cs[c].txcalls = 0
               /\ cs[c].sent = <<>>
          ELSE (cs[c].alloc_ok /\ cs[c].type_ok) =>
                   ~(cs[c].pc = "done" /\ cs[c].locks = 0)

\* C14 witness: firmware 3.2.0 turned away a transfer that was otherwise
\* good.
C14_Witness ==
    \E c \in Callers :
        /\ abi_version = SOF_ABI_VER(3, 2, 0)
        /\ cs[c].fn = "large"
        /\ cs[c].alloc_ok
        /\ cs[c].type_ok
        /\ cs[c].pc = "done"
        /\ cs[c].ret = EINVAL

\* a sequence back to front
Reverse(q) == [ k \in 1..Len(q) |-> q[Len(q) + 1 - k] ]

\* a is the beginning of b
IsPrefix(a, b) == Len(a) <= Len(b) /\ a = SubSeq(b, 1, Len(a))

\* the entries of a list for which something was built on the device
PayloadBearing(list) == SelectSeq(list, LAMBDA x : x.private # 0)

\* the DAI links that have a configuration
Configured(list) == SelectSeq(list, LAMBDA x : x.dai_config # "none")

\* the commands of one kind in the pass's log
Sent(op) == SelectSeq(pass.log, LAMBDA e : e.op = op)

\* the free opcode the claim names for a widget kind
FreeOpcode(id) ==
    IF id = "scheduler" THEN "PIPE_FREE"
    ELSE IF id = "buffer" THEN "BUFFER_FREE" ELSE "COMP_FREE"

\* the pass has returned without an error
PassedAs(fn) == pass.fn = fn /\ pass.pc = "done" /\ pass.ret >= 0

\* C15: a destroy pass sends free commands only, one per payload-bearing
\* component, last created first, with the opcode of the component's kind
\* and its id; a pass that ends without error has sent all of them, and with
\* no payload-bearing component it sends nothing and returns 0.
C15_DestroyOrder ==
    pass.fn = "destroy" =>
      LET want == Reverse(PayloadBearing(widget_list))
          frees == [ k \in 1..Len(want) |->
                       << FreeOpcode(want[k].id), want[k].comp_id >> ]
          did == [ k \in 1..Len(pass.log) |->
                     << pass.log[k].cmd, pass.log[k].id >> ]
      IN  /\ \A k \in 1..Len(pass.log) : pass.log[k].op = "free"
          /\ IsPrefix(did, frees)
          /\ PassedAs("destroy") => did = frees
          /\ (pass.pc = "done" /\ want = <<>>) =>
                (pass.log = <<>> /\ pass.ret = 0)

\* C15 witness: of three components the second has no payload; the pass has
\* freed the third as a buffer and then the first as a pipeline.
C15_Witness ==
    /\ PassedAs("destroy")
    /\ Len(widget_list) = 3
    /\ widget_list[2].private = 0
    /\ Len(pass.log) = 2
    /\ pass.log[1].cmd = "BUFFER_FREE" /\ pass.log[1].id = 3
    /\ pass.log[2].cmd = "PIPE_FREE" /\ pass.log[2].id = 1

\* C16: in a destroy pass only the last free command can have failed; when
\* it has, the pass is over and returns that command's error, and nothing
\* but free commands has been sent.
C16_DestroyAbort ==
    pass.fn = "destroy" =>
      LET n == Len(pass.log) IN
      /\ \A k \in 1..(n - 1) : pass.log[k].ret >= 0
      /\ (n > 0 /\ pass.log[n].ret < 0) =>
            /\ pass.pc = "done"
            /\ pass.ret = pass.log[n].ret
            /\ \A k \in 1..n : pass.log[k].op = "free"

\* C16 witness: three payload-bearing components; the second free failed and
\* the first component of the list was never freed.
C16_Witness ==
    /\ pass.fn = "destroy"
    /\ pass.pc = "done"
    /\ Len(PayloadBearing(widget_list)) = 3
    /\ Len(pass.log) = 2
    /\ pass.log[2].ret < 0
    /\ pass.ret = pass.log[2].ret

\* the place of a command's kind in the restore pass
Rank(op) ==
    CASE op = "new" -> 1
      [] op = "connect" -> 2
      [] op = "dai_config" -> 3
      [] op = "complete" -> 4
      [] op = "ctrl" -> 5

\* the schedulers of a widget list
Schedulers(list) == SelectSeq(list, LAMBDA x : x.id = "scheduler")

\* C17: in a restore pass the commands come phase by phase: components,
\* routes, DAI links, completions, controls. A phase has sent all its
\* commands, each with success, before the next phase sends its first.
C17_PhaseOrder ==
    pass.fn = "restore" =>
      LET n == Len(pass.log) IN
      /\ \A j, k \in 1..n :
           j < k => Rank(pass.log[j].op) <= Rank(pass.log[k].op)
      /\ \A j, k \in 1..n :
           (j < k /\ Rank(pass.log[j].op) < Rank(pass.log[k].op)
                  /\ Rank(pass.log[j].op) <= 3) => pass.log[j].ret >= 0
      /\ (n > 0 /\ Rank(pass.log[n].op) > 1) =>
            Len(Sent("new")) = Len(PayloadBearing(widget_list))
      /\ (n > 0 /\ Rank(pass.log[n].op) > 2) =>
            Len(Sent("connect")) = Len(PayloadBearing(route_list))
      /\ (n > 0 /\ Rank(pass.log[n].op) > 3) =>
            Len(Sent("dai_config")) = Len(Configured(dai_list))
      /\ (n > 0 /\ Rank(pass.log[n].op) > 4) =>
            Len(Sent("complete")) = Len(Schedulers(widget_list))

\* C17 witness: a restore pass has gone through all five phases.
C17_Witness ==
    /\ PassedAs("restore")
    /\ \A op \in {"new", "connect", "dai_config", "complete", "ctrl"} :
         Len(Sent(op)) > 0
    /\ Len(Sent("connect")) = 3

\* C18: a restore pass creates the payload-bearing components, last created
\* first, each with its stored payload, and then connects the
\* payload-bearing routes, last created first, each with its stored payload;
\* a pass that got past a phase has sent all of that phase's commands.
C18_RestoreOrder ==
    pass.fn = "restore" =>
      LET wantw == Reverse(PayloadBearing(widget_list))
          wantr == Reverse(PayloadBearing(route_list))
          news == [ k \in 1..Len(wantw) |-> << wantw[k].comp_id, wantw[k].private >> ]
          conns == [ k \in 1..Len(wantr) |-> << wantr[k].id, wantr[k].private >> ]
          didw == [ k \in 1..Len(Sent("new")) |->
                      << Sent("new")[k].id, Sent("new")[k].data >> ]
          didr == [ k \in 1..Len(Sent("connect")) |->
                      << Sent("connect")[k].id, Sent("connect")[k].data >> ]
      IN  /\ IsPrefix(didw, news)
          /\ IsPrefix(didr, conns)
          /\ pass.pc \in {"routes", "dais", "complete", "kcontrols"} => didw = news
          /\ pass.pc \in {"dais", "complete", "kcontrols"} => didr = conns
          /\ PassedAs("restore") => (didw = news /\ didr = conns)

\* C18 witness: of three components the second has no payload; the third
\* and then the first were created, and then route 2 and route 1 connected.
C18_Witness ==
    /\ pass.fn = "restore"
    /\ pass.pc = "dais"
    /\ Len(widget_list) = 3
    /\ widget_list[2].private = 0
    /\ Len(Sent("new")) = 2
    /\ Sent("new")[1].id = 3 /\ Sent("new")[2].id = 1
    /\ Len(Sent("connect")) = 2
    /\ Sent("connect")[1].id = 2 /\ Sent("connect")[2].id = 1

\* the DAI links configured so far, by name
DaisDone == [ k \in 1..Len(Sent("dai_config")) |-> Sent("dai_config")[k].id ]

\* the names of a list of DAI links
Names(list) == [ k \in 1..Len(list) |-> list[k].name ]

\* C19 (as claimed): a restore pass configures the DAI links in creation
\* order.
C19_DaiForward ==
    pass.fn = "restore" => IsPrefix(DaisDone, Names(Configured(dai_list)))

\* C19 (amended): a restore pass configures the DAI links that have a
\* configuration last created first, the same way round as components and
\* routes.
C19_DaiReverse ==
    pass.fn = "restore" =>
      /\ IsPrefix(DaisDone, Names(Reverse(Configured(dai_list))))
      /\ pass.pc \in {"complete", "kcontrols"} =>
            DaisDone = Names(Reverse(Configured(dai_list)))

\* C19 witness: three DAI links, all with a configuration, were configured
\* in the order 3, 2, 1.
C19_Witness ==
    /\ pass.fn = "restore"
    /\ Len(Configured(dai_list)) = 3
    /\ DaisDone = <<3, 2, 1>>

\* C20: in a restore pass a component, route or DAI-link command that failed
\* is the last thing the pass did: the pass is over and returns that
\* command's error.
C20_RestoreAbort ==
    pass.fn = "restore" =>
      \A k \in 1..Len(pass.log) :
          (Rank(pass.log[k].op) <= 3 /\ pass.log[k].ret < 0) =>
             /\ k = Len(pass.log)
             /\ pass.pc = "done"
             /\ pass.ret = pass.log[k].ret

\* C20 witness: the second of three route commands failed; the third route,
\* the DAI links, the completions and the controls were never attempted.
C20_Witness ==
    /\ pass.fn = "restore"
    /\ pass.pc = "done"
    /\ Len(PayloadBearing(route_list)) = 3
    /\ Len(Sent("connect")) = 2
    /\ Sent("connect")[2].ret = -5
    /\ pass.ret = -5
    /\ Sent("dai_config") = <<>>
    /\ Sent("complete") = <<>>
    /\ Sent("ctrl") = <<>>

\* the controls whose kind has a set command
Settable(list) ==
    SelectSeq(list, LAMBDA x : x.cmd \in {"volume", "enum", "switch", "binary"})

\* the controls a restore pass has sent so far, by component id
CtrlsDone == [ k \in 1..Len(Sent("ctrl")) |-> Sent("ctrl")[k].id ]

\* the component ids of a list of controls
CompIds(list) == [ k \in 1..Len(list) |-> list[k].comp_id ]

\* C21 (as claimed): whenever a resume has returned, every control has its
\* readback cursor at zero and has had its value sent again.
C21_AnyReturn ==
    (pass.fn = "restore" /\ pass.pc = "done") =>
       /\ \A k \in 1..Len(kcontrol_list) : kcontrol_list[k].readback_offset = 0
       /\ CtrlsDone = CompIds(kcontrol_list)

\* C21 (amended): when a resume has returned without an error, every control
\* has its readback cursor at zero, and every control of kind volume, enum,
\* switch or binary has had exactly one set command sent, in list order; a
\* control of another kind has had nothing sent. A resume that returned an
\* error has reset and sent only the controls it reached.
C21_ResumeOk ==
    pass.fn = "restore" =>
      /\ IsPrefix(CtrlsDone, CompIds(Settable(kcontrol_list)))
      /\ PassedAs("restore") =>
           /\ \A k \in 1..Len(kcontrol_list) :
                 kcontrol_list[k].readback_offset = 0
           /\ CtrlsDone = CompIds(Settable(kcontrol_list))
           /\ \A k \in 1..Len(Sent("ctrl")) : Sent("ctrl")[k].ret >= 0

\* C21 witness: a resume over two controls, a volume and a binary one, came
\* back without an error and sent a set command for each.
C21_Witness ==
    /\ PassedAs("restore")
    /\ Len(kcontrol_list) = 2
    /\ kcontrol_list[1].cmd = "volume" /\ kcontrol_list[2].cmd = "binary"
    /\ CtrlsDone = <<1, 2>>
    /\ Sent("ctrl")[1].cmd = "COMP_SET_VALUE"
    /\ Sent("ctrl")[2].cmd = "COMP_SET_DATA"

\* C29: a restore pass walks the DAI links from the last created to the
\* first; a link without a configuration is passed over, no command is sent
\* for it, the pass does not fail on it and goes on to the links before it;
\* every link with a configuration gets one configuration command and no
\* more.
C29_DaiSkip ==
    pass.fn = "restore" =>
      LET n == Len(DaisDone) IN
      /\ \A j, k \in 1..n : j < k => DaisDone[j] > DaisDone[k]
      /\ \A k \in 1..n :
           /\ DaisDone[k] \in 1..Len(dai_list)
           /\ dai_list[DaisDone[k]].dai_config # "none"
           /\ Sent("dai_config")[k].cmd = dai_list[DaisDone[k]].dai_config
      /\ (pass.pc \in {"complete", "kcontrols"} \/ PassedAs("restore")) =>
           \A d \in 1..Len(dai_list) :
              dai_list[d].dai_config # "none" =>
                 Cardinality({ k \in 1..n : DaisDone[k] = d }) = 1
      /\ (pass.pc = "done" /\ pass.ret < 0 /\ Len(pass.log) > 0) =>
           pass.log[Len(pass.log)].ret < 0

\* C29 witness: of three DAI links the second has no configuration; the
\* third and then the first were configured and the pass came back without
\* an error.
C29_Witness ==
    /\ PassedAs("restore")
    /\ Len(dai_list) = 3
    /\ dai_list[2].dai_config = "none"
    /\ DaisDone = <<3, 1>>

\* C30: every configuration command of an HDA link carries the invalid link
\* DMA channel, and the link's stored configuration holds it from then on;
\* the configuration of a link of any other kind is sent as stored and stays
\* as it was.
C30_HdaInvalid ==
    pass.fn = "restore" =>
      \A k \in 1..Len(Sent("dai_config")) :
         LET e == Sent("dai_config")[k]
             dai == dai_list[e.id]
         IN  IF e.cmd = "hda"
             THEN e.data = DMA_CHAN_INVALID /\ dai.link_dma_ch = DMA_CHAN_INVALID
             ELSE e.data = Dai(e.id, e.cmd).link_dma_ch
                    /\ dai.link_dma_ch = e.data

\* C30 witness: an HDA link whose channel was valid went out with the
\* invalid channel, and an SSP link went out with its own.
C30_Witness ==
    /\ pass.fn = "restore"
    /\ \E j, k \in 1..Len(Sent("dai_config")) :
         /\ Sent("dai_config")[j].cmd = "hda"
         /\ Sent("dai_config")[j].data = DMA_CHAN_INVALID
         /\ Dai(Sent("dai_config")[j].id, "hda").link_dma_ch # DMA_CHAN_INVALID
         /\ Sent("dai_config")[k].cmd = "ssp"
         /\ Sent("dai_config")[k].data = Sent("dai_config")[k].id

\* a plain send that has returned a protocol error: a size above the
\* maximum, or the channel found disabled
ProtocolError(r) ==
    /\ r.pc = "done"
    /\ r.fn \in PlainFns
    /\ \/ /\ r.ret = ENOBUFS
          /\ (r.msg_bytes > SOF_IPC_MSG_MAX_SIZE
                \/ r.reply_bytes > SOF_IPC_MSG_MAX_SIZE)
       \/ r.ret = ENODEV /\ r.txcalls = 1

\* C25: a plain send that fails with a protocol error, through either entry
\* point, has written nothing to the transport and has made no power-state
\* request to the DSP.
C25_NoInteraction ==
    \A c \in Callers :
        ProtocolError(cs[c]) => (cs[c].sent = <<>> /\ cs[c].pmreq = 0)

\* a reply is handed to snd_sof_ipc_reply in this step
ReplyStep == rx'.tick # rx.tick /\ rx'.kind = "reply"

\* some sender is inside the section under sdev->ipc_lock
InIrqSection == \E c \in Callers : cs[c].pc \in {"irq", "written"}

\* C26: initialising the message, writing it to the transport and marking
\* it as awaiting a reply are one step as far as the reply handler can see:
\* the lock is held exactly from the initialisation to the marking, no
\* reply is handled in between, and the reply to a command, unless a late
\* reply to an earlier command got in first, finds the command marked, is
\* accepted and stores its status.
C26_AtomicSend ==
    [][ /\ (ipc_lock' # 0) <=> InIrqSection'
        /\ ReplyStep => ~InIrqSection
        /\ (ReplyStep /\ rx'.whose = "own"
                      /\ ~(msg.ipc_complete /\ msg.by = "stale")) =>
              /\ ~msg.ipc_complete
              /\ rx'.ret = 0
              /\ msg'.ipc_complete
              /\ msg'.by = "own"
              /\ msg'.reply_error = rx'.status ]_vars

\* C26 witness: the command's own reply has been accepted while its sender
\* is in tx_wait_done.
C26_Witness ==
    /\ rx.kind = "reply"
    /\ rx.whose = "own"
    /\ rx.ret = 0
    /\ cs[1].pc = "wait"
    /\ msg.ipc_complete
    /\ msg.by = "own"
    /\ ipc_lock = 0

\* C27: snd_sof_ipc_reply with a command marked as awaiting its reply sets
\* the completion flag, wakes the waiter and returns 0, and a sender in
\* tx_wait_done then finds its condition true; with no reply expected it
\* returns EINVAL, wakes nobody and leaves the message slot, the send lock,
\* the disabled flag and the senders as they were.
C27_ReplyOrReject ==
    [][ ReplyStep =>
          IF ~msg.ipc_complete
          THEN /\ rx'.ret = 0
               /\ rx'.woke
               /\ msg'.ipc_complete
               /\ wait_event_timeout(msg'.ipc_complete) = {1}
          ELSE /\ rx'.ret = EINVAL
               /\ ~rx'.woke
               /\ UNCHANGED <<msg, tx_mutex, disable_ipc_tx, cs, ipc_lock>> ]_vars

\* C27 witness: a reply came before any command was ever sent and was
\* turned away with EINVAL.
C27_Witness ==
    /\ rx.kind = "reply"
    /\ rx.ret = EINVAL
    /\ ~rx.woke
    /\ msg = InitMsg
    /\ \A c \in Callers : cs[c] = IdleCs

\* a message of the DSP is handed to snd_sof_ipc_msgs_rx in this step
MsgStep == rx'.tick # rx.tick /\ rx'.kind = "msg"

\* the directions of the PCM list with this component id
Matches(list, id) ==
    { h \in { <<k, d>> : k \in 1..Len(list), d \in 0..SNDRV_PCM_STREAM_CAPTURE } :
        list[h[1]].stream[h[2]].comp_id = id }

\* every stream's cached position is the one its own last position message
\* brought, and zero if it never had one
OwnPositions ==
    \A k \in 1..Len(pcm_list), d \in 0..SNDRV_PCM_STREAM_CAPTURE :
        LET st == pcm_list[k].stream[d]
            mine == { t \in rx.told : t[1] = st.comp_id }
        IN  /\ mine = {} => st.posn = 0
            /\ \A t \in mine : t[2] = "posn" => st.posn = t[3]

\* C22: position messages for two streams, in any order while a command is
\* pending, neither complete nor fail the command and touch nothing of the
\* channel; the command's reply, arriving while it is pending, wakes the
\* sender and stores its status, and the sender returns that status; and
\* every stream's cached position is what its own last position message
\* carried.
C22_StreamsApart ==
    [][ /\ MsgStep => UNCHANGED <<msg, cs, tx_mutex, dsp, disable_ipc_tx>>
        /\ (ReplyStep /\ rx'.whose = "own" /\ ~msg.ipc_complete) =>
              /\ rx'.woke
              /\ msg'.ipc_complete
              /\ msg'.reply_error = rx'.status
              /\ UNCHANGED <<pcm_list, cs>>
        /\ \A c \in Callers :
              (WaitEnds(c) /\ msg.ipc_complete /\ msg.by = "own") =>
                 /\ cs'[c].how = "reply"
                 /\ cs'[c].ret = msg.reply_error
                 /\ dsp.said = << cs'[c].ret >>
        /\ OwnPositions' ]_vars

\* C22 witness: with the sender still waiting for its reply, stream 5 holds
\* position 1 and stream 7 position 2, each from a message of its own, the
\* last of them just received.
C22_Witness ==
    /\ cs[1].pc = "wait"
    /\ ~msg.ipc_complete
    /\ rx.kind = "msg"
    /\ rx.busy
    /\ rx.cmd.type = "STREAM_POSITION"
    /\ rx.told = { <<5, "posn", 1>>, <<7, "posn", 2>> }
    /\ pcm_list[1].stream[0].posn = 1
    /\ pcm_list[2].stream[1].posn = 2

\* C23: a firmware-ready message changes the boot state only when a boot is
\* in progress: the readiness data is validated, the state becomes complete
\* if that succeeds and failed if it fails, and the boot waiter is woken; in
\* any other boot state nothing is validated, the state stays and nobody is
\* woken.
C23_FwReady ==
    [][ (MsgStep /\ rx'.cmd.glb = "FW_READY") =>
          /\ IF fw_state = "BOOT_IN_PROGRESS"
             THEN /\ rx'.validated
                  /\ rx'.boot_woken
                  /\ fw_state' = IF rx'.ret < 0 THEN "BOOT_READY_FAILED"
                                 ELSE "BOOT_COMPLETE"
             ELSE /\ ~rx'.validated
                  /\ ~rx'.boot_woken
                  /\ fw_state' = fw_state
          /\ pcm_list' = pcm_list
          /\ rx'.elapsed = <<>> ]_vars

\* C23 witness: the readiness data of a boot in progress did not validate.
C23_Witness ==
    /\ rx.kind = "msg"
    /\ rx.cmd.glb = "FW_READY"
    /\ rx.validated
    /\ rx.boot_woken
    /\ rx.ret < 0
    /\ fw_state = "BOOT_READY_FAILED"

C28_NoSendInRx ==
    /\ [][ MsgStep =>
              /\ UNCHANGED <<tx_mutex, cs, msg, dsp, disable_ipc_tx, ipc_lock>>
              /\ rx'.locks \subseteq {"client_mutex"} ]_vars
    /\ [](tx_mutex # 0 => \A hdr \in Hdrs : CanTake(rx_locks(hdr)))

\* C28 witness: an XRUN message was handled under the client-list lock while
\* the sender, holding the send lock, waits for its reply.
C28_Witness ==
    /\ tx_mutex = 1
    /\ cs[1].pc = "wait"
    /\ ~msg.ipc_complete
    /\ rx.kind = "msg"
    /\ rx.busy
    /\ rx.cmd.type = "STREAM_TRIG_XRUN"
    /\ rx.locks = {"client_mutex"}

\* the way the claim says a widget kind is created again
PathOfKind(id) ==
    IF id \in {"dai_in", "dai_out"} THEN "dai_comp"
    ELSE IF id = "scheduler" THEN "pipe_new" ELSE "generic"

\* the widget of a list that has a component id
WidgetOf(list, comp_id) ==
    list[CHOOSE k \in 1..Len(list) : list[k].comp_id = comp_id]

\* C31: every component a restore pass creates again has a payload, is
\* created from that stored payload, and goes the way of its kind: a DAI-in
\* or DAI-out widget as a DAI component descriptor, a scheduler through the
\* pipeline-creation path, every other kind as an opaque payload with the
\* opcode and size of its own header.
C31_PathByKind ==
    pass.fn = "restore" =>
      \A k \in 1..Len(Sent("new")) :
         LET e == Sent("new")[k]
             w == WidgetOf(widget_list, e.id)
         IN  /\ w.private # 0
             /\ e.data = w.private
             /\ e.cmd = PathOfKind(w.id)
             /\ e.cmd = "dai_comp" <=> w.id \in {"dai_in", "dai_out"}
             /\ e.cmd = "pipe_new" <=> w.id = "scheduler"

\* C31 witness: a restore pass over a scheduler, a buffer and a DAI-out
\* widget has created the DAI-out widget as a DAI component, the buffer as
\* an opaque payload and the scheduler through the pipeline path.
C31_Witness ==
    /\ pass.fn = "restore"
    /\ pass.pc = "routes"
    /\ Len(widget_list) = 3
    /\ widget_list[1].id = "scheduler"
    /\ widget_list[2].id = "buffer"
    /\ widget_list[3].id = "dai_out"
    /\ Len(Sent("new")) = 3
    /\ Sent("new")[1].cmd = "dai_comp"
    /\ Sent("new")[2].cmd = "generic"
    /\ Sent("new")[3].cmd = "pipe_new"

\* the completions a restore pass has run so far, by component id
CompletesDone == [ k \in 1..Len(Sent("complete")) |-> Sent("complete")[k].id ]

\* the restore pass has got as far as the controls
ReachedControls ==
    \/ pass.pc = "kcontrols"
    \/ pass.pc = "done" /\ pass.ret >= 0
    \/ pass.pc = "done" /\ pass.log # <<>> /\ pass.log[Len(pass.log)].op = "ctrl"

\* C32: a restore pass runs the completion check for the schedulers, in
\* list order, and for no other widget; it runs after the last DAI command,
\* each result is stored in the scheduler's complete flag and the flag of
\* any other widget is left alone; a failed completion check neither ends
\* the pass nor becomes its result, and the pass goes on to the controls.
C32_Completion ==
    pass.fn = "restore" =>
      /\ IsPrefix(CompletesDone, CompIds(Schedulers(widget_list)))
      /\ Sent("complete") # <<>> =>
            Len(Sent("dai_config")) = Len(Configured(dai_list))
      /\ \A k \in 1..Len(Sent("complete")) :
            WidgetOf(widget_list, CompletesDone[k]).complete
               = Sent("complete")[k].ret
      /\ \A k \in 1..Len(widget_list) :
            widget_list[k].id # "scheduler" => widget_list[k].complete = 0
      /\ ReachedControls => CompletesDone = CompIds(Schedulers(widget_list))
      /\ (pass.pc = "done" /\ Sent("complete") # <<>>) =>
            /\ ReachedControls
            /\ pass.ret < 0 => pass.ret = pass.log[Len(pass.log)].ret
            /\ pass.ret >= 0 => CtrlsDone = CompIds(Settable(kcontrol_list))

\* C32 witness: schedulers first and third in the list with a buffer
\* between them; the first completion check failed, the third widget's
\* passed, the buffer had none, and the pass sent the control and returned 0.
C32_Witness ==
    /\ PassedAs("restore")
    /\ Len(widget_list) = 3
    /\ widget_list[1].id = "scheduler" /\ widget_list[1].complete = -5
    /\ widget_list[2].id = "buffer"
    /\ widget_list[3].id = "scheduler"
    /\ CompletesDone = <<1, 3>>
    /\ Sent("complete")[1].ret = -5 /\ Sent("complete")[2].ret = 0
    /\ Sent("ctrl") # <<>>
    /\ pass.ret = 0

\* the control of a list that has a component id
ControlOf(list, comp_id) ==
    list[CHOOSE k \in 1..Len(list) : list[k].comp_id = comp_id]

\* the set command and value type the claim names for a control kind
SetPair(cmd) ==
    IF cmd = "binary" THEN << "COMP_SET_DATA", "DATA_SET" >>
    ELSE << "COMP_SET_VALUE", "VALUE_CHAN_SET" >>

\* what a restore pass has sent stays sent
LogGrows == pass'.fn = pass.fn => IsPrefix(pass.log, pass'.log)

\* a control changes only when the control loop is at it, and then to a
\* readback cursor of zero
OnlyReached ==
    \A k \in 1..Len(kcontrol_list) :
       kcontrol_list'[k] # kcontrol_list[k] =>
          /\ pass.pc = "kcontrols" /\ k = pass.idx + 1
          /\ kcontrol_list'[k] = [kcontrol_list[k] EXCEPT !.readback_offset = 0]

\* what holds of the controls during a restore pass
CtrlRestore ==
    pass.fn = "restore" =>
      /\ IsPrefix(CtrlsDone, CompIds(Settable(kcontrol_list)))
      /\ \A k \in 1..Len(Sent("ctrl")) :
            LET e == Sent("ctrl")[k]
                c == ControlOf(kcontrol_list, e.id)
            IN  /\ c.readback_offset = 0
                /\ c.cmd \in {"volume", "enum", "switch", "binary"}
                /\ << e.cmd, e.type >> = SetPair(c.cmd)
                /\ e.ret < 0 =>
                      /\ k = Len(Sent("ctrl"))
                      /\ pass.log[Len(pass.log)] = e
                      /\ pass.pc = "done"
                      /\ pass.ret = e.ret
      /\ \A k \in 1..Len(pass.log) : pass.log[k].op # "free"

\* C33: the control loop of a restore pass goes through the controls in
\* list order; a volume, enum or switch control gets one set-value command
\* of the channel-value type and a binary control one set-data command of
\* the data type, sent with the control's readback cursor at zero; a failed
\* command is the last thing the pass does and its error is what the pass
\* returns; a control the loop never reached is left as it was; nothing
\* already sent is taken back and no free command is sent.
C33_ControlRestore == [][OnlyReached /\ LogGrows]_vars /\ []CtrlRestore

\* C33 witness: the set command of the first control, an enum, failed; the
\* pass returned that error, the second control still has its readback
\* cursor at 4 and was not sent, and what was restored before is in place.
C33_Witness ==
    /\ pass.fn = "restore"
    /\ pass.pc = "done"
    /\ pass.ret = -5
    /\ Len(kcontrol_list) = 2
    /\ kcontrol_list[1].cmd = "enum" /\ kcontrol_list[1].readback_offset = 0
    /\ kcontrol_list[2].cmd = "binary" /\ kcontrol_list[2].readback_offset = 4
    /\ Len(Sent("ctrl")) = 1
    /\ Sent("ctrl")[1].ret = -5
    /\ Sent("ctrl")[1].cmd = "COMP_SET_VALUE"
    /\ Len(Sent("new")) = 2 /\ Len(Sent("connect")) = 2
    /\ Len(Sent("dai_config")) = 2

\* the commands in a log, the notes of callbacks left out
Commands(log) == SelectSeq(log, LAMBDA e : e.op # "call")

\* sof_audio_suspend runs in this step
SuspendStep == pass.pc = "idle" /\ pass'.pc = "done" /\ pass'.fn = "suspend"

\* C34: sof_audio_suspend clears the prepared flag of the stream directions
\* that have a substream with a runtime in the suspended state, and of no
\* other: a direction without substream, without runtime or in another state
\* keeps its flag, set or not. The streams themselves, the topology lists
\* and the channel are untouched, and no command is sent.
C34_FlagPass ==
    [][ SuspendStep =>
          /\ Len(pcm_list') = Len(pcm_list)
          /\ \A k \in 1..Len(pcm_list) :
                /\ pcm_list'[k].stream = pcm_list[k].stream
                /\ \A dir \in 0..SNDRV_PCM_STREAM_CAPTURE :
                      LET s == pcm_list[k].stream[dir] IN
                      pcm_list'[k].prepared[dir] =
                         IF s.substream = "runtime" /\ s.state = "SUSPENDED"
                         THEN FALSE
                         ELSE pcm_list[k].prepared[dir]
          /\ Commands(pass'.log) = Commands(pass.log)
          /\ UNCHANGED <<tx_mutex, disable_ipc_tx, msg, cs, dsp, widget_list,
                         route_list, dai_list, kcontrol_list>> ]_vars

\* C34 witness: a suspend over a PCM whose capture direction was suspended
\* and whose playback direction was paused has cleared the capture flag and
\* left the playback flag set.
C34_Witness ==
    /\ pass.fn = "suspend" /\ pass.pc = "done"
    /\ Callbacks(pass.log) = << Event("call", "suspend", 0, 0, "", 0) >>
    /\ pcm_list[1].stream[1].substream = "runtime"
    /\ pcm_list[1].stream[1].state = "SUSPENDED"
    /\ ~pcm_list[1].prepared[1]
    /\ pcm_list[1].stream[0].substream = "runtime"
    /\ pcm_list[1].stream[0].state = "PAUSED"
    /\ pcm_list[1].prepared[0]

\* the component of the k-th entry of a log was freed, and not created
\* again, before that entry
FreedBefore(log, k) ==
    \E j \in 1..(k - 1) :
       /\ log[j].op = "free" /\ log[j].id = log[k].id /\ log[j].ret >= 0
       /\ \A i \in (j + 1)..(k - 1) :
             ~(log[i].op = "new" /\ log[i].id = log[k].id)

\* the callback before the k-th entry of a log
CallBefore(log, k) ==
    LET calls == Callbacks(SubSeq(log, 1, k - 1)) IN
    IF calls = <<>> THEN "none" ELSE calls[Len(calls)].cmd

\* C35 (as claimed): over the callbacks of the power-management core a
\* resume comes after a destroy pass, whichever suspend callback was made,
\* and a component is created again only after it was freed.
C35_DestroyBeforeRestore ==
    \A k \in 1..Len(pass.log) :
       /\ (pass.log[k].op = "call" /\ pass.log[k].cmd = "resume") =>
             \E j \in 1..(k - 1) :
                /\ pass.log[j].op = "free"
                /\ CallBefore(pass.log, j + 1) = CallBefore(pass.log, k)
       /\ pass.log[k].op = "new" => FreedBefore(pass.log, k)

\* C36 (as claimed): an overrun/underrun message that names a known stream
\* leaves its position in that stream's cache, whatever the build; one that
\* names no stream changes nothing and stops nothing.
C36_XrunTelemetry ==
    [][ (MsgStep /\ StreamMsg(rx'.cmd, {"STREAM_TRIG_XRUN"})) =>
          LET hits == Matches(pcm_list, rx'.cmd.id) IN
          /\ hits = {} => (pcm_list' = pcm_list /\ rx'.stopped = <<>>)
          /\ \A h \in hits :
               pcm_list' = [ pcm_list EXCEPT
                               ![h[1]].stream[h[2]].posn = rx'.status ] ]_vars

\* the header is one the claim says is dropped
Dropped(hdr) ==
    \/ hdr.glb \in {"GLB_REPLY", "GLB_COMPOUND", "GLB_TPLG_MSG", "GLB_PM_MSG",
                    "GLB_COMP_MSG", "unknown"}
    \/ hdr.glb = "GLB_STREAM_MSG"
         /\ hdr.type \notin {"STREAM_POSITION", "STREAM_TRIG_XRUN"}
    \/ hdr.glb = "GLB_TRACE_MSG" /\ hdr.type # "TRACE_DMA_POSITION"

\* C37: a message of the reply, compound, topology, power-management or
\* component class or of an unknown class, and a stream or trace message of
\* a type without a handler, changes nothing: not the pending message, the
\* senders or the send lock, not the boot state, no stream, no topology
\* list; nobody is woken, no period is signalled, no stream stopped and no
\* trace position taken. A pending command stays pending.
C37_Dropped ==
    [][ (MsgStep /\ Dropped(rx'.cmd)) =>
          /\ UNCHANGED <<tx_mutex, disable_ipc_tx, msg, cs, dsp, abi_version,
                         fw_state, pcm_list, audio, ipc_lock>>
          /\ msg'.ipc_complete = msg.ipc_complete
          /\ ~rx'.woke /\ ~rx'.boot_woken /\ ~rx'.validated
          /\ rx'.elapsed = <<>> /\ rx'.stopped = <<>> /\ rx'.trace = 0 ]_vars

\* C37 witness: a reply-class message came in through snd_sof_ipc_msgs_rx
\* while the sender waits for its reply, and the command is still pending.
C37_Witness ==
    /\ cs[1].pc = "wait"
    /\ ~msg.ipc_complete
    /\ rx.kind = "msg"
    /\ rx.busy
    /\ rx.cmd.glb = "GLB_REPLY"
    /\ ~rx.woke

\* snd_sof_ipc_valid runs in this step
ValidStep == rx'.tick # rx.tick /\ rx'.kind = "valid"

\* C38: snd_sof_ipc_valid returns -EINVAL for a firmware ABI of another
\* major number than the host's; for one of the same major number that is
\* newer than the host's it returns -EINVAL in a strict build and 0
\* otherwise; for any other it returns 0. sdev->fw_version takes the
\* firmware's version when the result is 0 and keeps what it had when it is
\* not. Nothing else changes.
C38_AbiCheck ==
    [][ ValidStep =>
          LET fw == rx'.version.abi_version
              host == rx'.host
              differs == (fw \div 16777216) # (host \div 16777216)
          IN  /\ rx'.version.abi_version = abi_version
              /\ differs => rx'.ret = EINVAL
              /\ (~differs /\ fw > host) =>
                    rx'.ret = IF rx'.strict THEN EINVAL ELSE 0
              /\ (~differs /\ fw <= host) => rx'.ret = 0
              /\ rx'.ret = 0 => fw_version' = rx'.version
              /\ rx'.ret # 0 => fw_version' = fw_version
              /\ UNCHANGED <<tx_mutex, disable_ipc_tx, msg, cs, dsp,
                             abi_version, audio, ipc_lock, fw_state,
                             pcm_list>> ]_vars

\* C38 witness: firmware 1.5 with ABI 3.4.0 was recorded by a host of ABI
\* 3.3.0 that is not strict; the strict check of firmware 1.4 with the same
\* ABI then failed and left the record of 1.5 in place.
C38_Witness ==
    /\ rx.kind = "valid"
    /\ rx.version = Version(1, 4, SOF_ABI_VER(3, 4, 0))
    /\ rx.host = SOF_ABI_VER(3, 3, 0)
    /\ rx.strict
    /\ rx.ret = EINVAL
    /\ fw_version = Version(1, 5, SOF_ABI_VER(3, 4, 0))

\* the transport write of caller c's command failed
WriteFailed(c) ==
    /\ cs[c].sent # <<>> /\ ~cs[c].sent[Len(cs[c].sent)].ok
    /\ cs[c].ret < 0

\* C39: the transport's answer to a failed write changes neither the
\* message slot nor what the DSP owes; the step after it ends the send with
\* the transport's error, with the slot as it was, no reply expected on
\* account of this command, and both locks free; the send never waits. A
\* reply that comes once the send has returned leaves the sender's result
\* alone, and with nothing else pending it is turned away with -EINVAL and
\* wakes nobody.
C39_WriteFailure ==
    [][ /\ \A c \in Callers :
             (cs[c].pc = "irq" /\ cs'[c].pc = "written" /\ cs'[c].ret < 0) =>
                (msg' = msg /\ dsp' = dsp)
        /\ \A c \in Callers :
             (cs[c].pc = "written" /\ WriteFailed(c) /\ cs'[c] # cs[c]) =>
                /\ cs'[c].pc = "done"
                /\ cs'[c].ret = cs[c].ret
                /\ cs'[c].rets = Append(cs[c].rets, cs[c].ret)
                /\ cs'[c].fwexc = cs[c].fwexc
                /\ msg' = msg
                /\ dsp' = dsp
                /\ tx_mutex' = 0
                /\ ipc_lock' = 0
        /\ \A c \in Callers :
             (ReplyStep /\ cs[c].pc = "done" /\ WriteFailed(c)) =>
                /\ cs' = cs
                /\ msg.ipc_complete =>
                      (rx'.ret = EINVAL /\ ~rx'.woke /\ msg'.ipc_complete) ]_vars

\* C39 witness: the transport refused the sender's first command; the send
\* returned -16 with both locks free and the slot complete, and the reply
\* signal that followed was turned away.
C39_Witness ==
    /\ cs[1].pc = "done"
    /\ cs[1].rets = << -16 >>
    /\ WriteFailed(1)
    /\ cs[1].how = "none"
    /\ tx_mutex = 0 /\ ipc_lock = 0
    /\ msg.ipc_complete
    /\ ~dsp.owes
    /\ rx.kind = "reply" /\ rx.whose = "spurious" /\ rx.ret = EINVAL

\* the disabled flag changes in this step
FlagChanges == disable_ipc_tx' # disable_ipc_tx

\* caller c has a command written to the transport and not yet answered
InFlight(c) == cs[c].pc = "wait"

\* the chunked transfer of caller c has written at least one message
Started(c) == cs[c].fn = "large" /\ cs[c].sent # << >>

\* C40: the disabled flag changes only while no sender holds the send lock,
\* hence never while a command is in flight or inside a chunked transfer; a
\* wait for a written command ends by its reply or its timeout, never by
\* ENODEV; and a chunked transfer that has written a message never gets
\* ENODEV for a later one.
C40_FreeSerialized ==
    [][ /\ FlagChanges =>
              /\ tx_mutex = 0
              /\ cs' = cs
              /\ \A c \in Callers : ~InFlight(c) /\ ~Inside(c)
        /\ \A c \in Callers :
              /\ WaitEnds(c) =>
                    /\ cs'[c].how \in {"reply", "timeout"}
                    /\ cs'[c].ret # ENODEV
              /\ Started(c) =>
                    /\ cs'[c].ret # ENODEV
                    /\ \A k \in DOMAIN cs'[c].rets : cs'[c].rets[k] # ENODEV ]_vars

\* C40 witness: sending was disabled after one caller's chunked transfer of
\* two messages had run to its end, and the other caller, held at the lock
\* meanwhile, was refused with ENODEV before writing anything.
C40_Witness ==
    /\ disable_ipc_tx
    /\ \E c, d \in Callers :
          /\ c # d
          /\ cs[c].fn = "large" /\ cs[c].pc = "done"
          /\ Len(cs[c].sent) = 2 /\ cs[c].ret = 0
          /\ cs[d].pc = "done" /\ cs[d].ret = ENODEV
          /\ cs[d].sent = << >> /\ cs[d].txcalls = 1

====
